---- MODULE Spec2Model ----
(***************************************************************************)
(* Backend registry and policy selection engine of the comfyone scheduler  *)
(* (comfyone/scheduler): the policy classes of policies.py, the shared     *)
(* POLICY_MAP and BackendScheduler of backend_scheduler.py, and the store  *)
(* operations of db_operations.py over the tables of database.py.          *)
(*                                                                         *)
(* A Backend is a record [id, app_id, instance_id, weight, state].  The    *)
(* column backend_scheduler.py calls host is the instance_id column of     *)
(* database.py, and the one it calls status is the state column.           *)
(* An Optional[int] is a sequence: <<>> is None and <<n>> is the int n.    *)
(***************************************************************************)
EXTENDS Integers, Sequences, FiniteSets, TLC

VARIABLES
    cands,      \* PolicySpec: the list handed to select_backends
    pol,        \* PolicySpec, RaceSpec: the policy object [type, limit, current_index]
    ret,        \* PolicySpec: what the last select_backends call returned
    calls,      \* PolicySpec: the returns of the calls made since cands last changed
    start,      \* PolicySpec: the policy object as it was when `calls` was empty
    configured, \* PolicySpec: the limit the policy object was constructed with
    op,         \* the operation the last step performed
    pc,         \* RaceSpec, AddRaceSpec: the statement each thread is at
    loc,        \* RaceSpec, AddRaceSpec: the local variables of each thread
    out,        \* RaceSpec, AddRaceSpec: what the call of each thread returned or raised
    table,      \* RegistrySpec, AddRaceSpec, Spec: the rows of the backends table
    POLICY_MAP, \* Spec: the module-level policy objects, one per policy type
    issued,     \* Spec: the ids stored so far for Backends built without an id
    policies    \* PolicyStoreSpec: the rows of the policies table

policyVars == <<ret, calls, start, configured>>
objectVars == <<cands, pol, ret, calls, start, configured>>
threadVars == <<pc, loc, out>>
schedVars == <<POLICY_MAP, issued>>
vars == <<cands, pol, ret, calls, start, configured, op, pc, loc, out, table,
          POLICY_MAP, issued, policies>>

----------------------------------------------------------------------------
(* Bounds of the model *)

MaxBackends == 3
MaxLimit == 3
MaxWeight == 2
NumThreads == 2
MaxHosts == 2
MaxRetries == 3
MaxRegs == 3
MaxConnects == 2
\* calls followed in a row: one full rotation over MaxBackends backends and one more
MaxCalls == MaxBackends + 1

----------------------------------------------------------------------------
(* Python helpers *)

Min(a, b) == IF a < b THEN a ELSE b
Max(a, b) == IF a > b THEN a ELSE b

Range(s) == {s[i] : i \in 1..Len(s)}

\* s[:k] of a Python list, negative k counted from the end
PyPrefix(s, k) ==
    IF k >= 0 THEN SubSeq(s, 1, Min(k, Len(s)))
    ELSE SubSeq(s, 1, Max(0, Len(s) + k))

\* s[k:] of a Python list, negative k counted from the end
PySuffix(s, k) ==
    IF k >= 0 THEN SubSeq(s, Min(k, Len(s)) + 1, Len(s))
    ELSE SubSeq(s, Max(0, Len(s) + k) + 1, Len(s))

None == <<>>
Some(n) == <<n>>

----------------------------------------------------------------------------
(* policies.py *)

PolicyType == {"round_robin", "weighted", "all_active", "random"}

\* the filter with its condition dropped
ActiveBackends_NoFilter(backends) == backends

\* [b for b in backends if b.state == "active"]
ActiveBackends(backends) == SelectSeq(backends, LAMBDA b : b.state = "active")

\* the slice one element too long
apply_limit_OffByOne(limit, backends) ==
    IF limit # None /\ Len(backends) > limit[1]
    THEN PyPrefix(backends, limit[1] + 1)
    ELSE backends

\* BackendPolicy._apply_limit
apply_limit(limit, backends) ==
    IF limit # None /\ Len(backends) > limit[1]
    THEN PyPrefix(backends, limit[1])
    ELSE backends

\* self.limit or 1
LimitOr1(limit) == IF limit = None \/ limit[1] = 0 THEN 1 ELSE limit[1]

\* BackendPolicy.__init__ / RoundRobinPolicy.__init__
NewPolicy(type, limit) == [type |-> type, limit |-> limit, current_index |-> 0]

\* update_limit also putting the cursor back to 0
update_limit_ResetsCursor(self, new_limit) ==
    [self EXCEPT !.limit = Some(new_limit), !.current_index = 0]

\* BackendPolicy.update_limit: self.limit = new_limit
update_limit(self, new_limit) == [self EXCEPT !.limit = Some(new_limit)]

\* the cursor advanced without wrapping around
RoundRobin_select_backends_NoWrap(self, backends) ==
    IF backends = <<>> THEN [self |-> self, ret |-> <<>>]
    ELSE LET active_backends == ActiveBackends(backends) IN
         IF active_backends = <<>> THEN [self |-> self, ret |-> <<>>]
         ELSE LET limit == Min(LimitOr1(self.limit), Len(active_backends))
                  backends_view == PySuffix(active_backends, self.current_index)
                                   \o PyPrefix(active_backends, self.current_index)
                  self2 == [self EXCEPT !.limit = Some(limit),
                                        !.current_index = self.current_index + limit]
              IN [self |-> self2, ret |-> apply_limit(self2.limit, backends_view)]

\* the view taken after the cursor has been advanced instead of before
RoundRobin_select_backends_ViewAfterAdvance(self, backends) ==
    IF backends = <<>> THEN [self |-> self, ret |-> <<>>]
    ELSE LET active_backends == ActiveBackends(backends) IN
         IF active_backends = <<>> THEN [self |-> self, ret |-> <<>>]
         ELSE LET limit == Min(LimitOr1(self.limit), Len(active_backends))
                  current_index == (self.current_index + limit) % Len(active_backends)
                  backends_view == PySuffix(active_backends, current_index)
                                   \o PyPrefix(active_backends, current_index)
                  self2 == [self EXCEPT !.limit = Some(limit),
                                        !.current_index = current_index]
              IN [self |-> self2, ret |-> apply_limit(self2.limit, backends_view)]

\* RoundRobinPolicy.select_backends: the policy after the call and the list returned
RoundRobin_select_backends(self, backends) ==
    IF backends = <<>> THEN [self |-> self, ret |-> <<>>]
    ELSE LET active_backends == ActiveBackends(backends) IN
         IF active_backends = <<>> THEN [self |-> self, ret |-> <<>>]
         ELSE LET limit == Min(LimitOr1(self.limit), Len(active_backends))
                  backends_view == PySuffix(active_backends, self.current_index)
                                   \o PyPrefix(active_backends, self.current_index)
                  current_index == (self.current_index + limit) % Len(active_backends)
                  self2 == [self EXCEPT !.limit = Some(limit),
                                        !.current_index = current_index]
              IN [self |-> self2, ret |-> apply_limit(self2.limit, backends_view)]

\* sorted(xs, key=lambda x: x.weight, reverse=True): stable, descending.
\* x goes behind every element of the sorted list s that is not lighter than it.
RECURSIVE InsertByWeight(_, _)
InsertByWeight(s, x) ==
    IF s = <<>> THEN <<x>>
    ELSE IF s[1].weight >= x.weight
         THEN <<s[1]>> \o InsertByWeight(Tail(s), x)
         ELSE <<x>> \o s

RECURSIVE SortedByWeightDesc(_)
SortedByWeightDesc(xs) ==
    IF xs = <<>> THEN <<>>
    ELSE InsertByWeight(SortedByWeightDesc(SubSeq(xs, 1, Len(xs) - 1)), xs[Len(xs)])

\* the weighted selection with the sort left out
Weighted_select_backends_Unsorted(self, backends) ==
    LET active_backends == ActiveBackends(backends) IN
    IF active_backends = <<>> THEN [self |-> self, ret |-> <<>>]
    ELSE [self |-> self, ret |-> apply_limit(self.limit, active_backends)]

\* WeightedPolicy.select_backends
Weighted_select_backends(self, backends) ==
    LET active_backends == ActiveBackends(backends) IN
    IF active_backends = <<>> THEN [self |-> self, ret |-> <<>>]
    ELSE [self |-> self,
          ret |-> apply_limit(self.limit, SortedByWeightDesc(active_backends))]

\* the all-active selection rotating like RoundRobinPolicy
AllActive_select_backends_Rotating(self, backends) ==
    RoundRobin_select_backends(self, backends)

\* AllActivePolicy.select_backends
AllActive_select_backends(self, backends) ==
    [self |-> self, ret |-> apply_limit(self.limit, ActiveBackends(backends))]

\* the lists random.shuffle can leave: every permutation of xs
Shuffles(xs) ==
    {s \in [1..Len(xs) -> Range(xs)] : \A i, j \in 1..Len(xs) : i # j => s[i] # s[j]}

\* RandomPolicy.select_backends; shuffled is the outcome of random.shuffle
Random_select_backends(self, backends, shuffled) ==
    LET active_backends == ActiveBackends(backends) IN
    IF active_backends = <<>> THEN [self |-> self, ret |-> <<>>]
    ELSE [self |-> self, ret |-> apply_limit(self.limit, shuffled)]

\* policy.select_backends(backends), dispatched on the class of the policy object
select_backends(self, backends, shuffled) ==
    CASE self.type = "round_robin" -> RoundRobin_select_backends(self, backends)
      [] self.type = "weighted"    -> Weighted_select_backends(self, backends)
      [] self.type = "all_active"  -> AllActive_select_backends(self, backends)
      [] self.type = "random"      -> Random_select_backends(self, backends, shuffled)

----------------------------------------------------------------------------
(* PolicySpec: one policy object applied to candidate lists *)

States == {"active", "down"}
InstanceIds == {"h1", "h2", "h3", "h4"}
InstanceAt(i) == CASE i = 1 -> "h1" [] i = 2 -> "h2" [] i = 3 -> "h3" [] OTHER -> "h4"

\* Candidate lists of up to MaxBackends backends of one app, in stored order.
\* Identifiers are opaque, so the i-th stored backend is named InstanceAt(i).
CandidateLists ==
    UNION {
        {[i \in 1..n |-> [id |-> InstanceAt(i), app_id |-> "a1",
                          instance_id |-> InstanceAt(i),
                          weight |-> w[i], state |-> st[i]]] :
            w \in [1..n -> 1..MaxWeight], st \in [1..n -> States]}
        : n \in 0..MaxBackends}

LimitValues == {None} \cup {Some(n) : n \in 0..MaxLimit}

PolicyObjects ==
    {[type |-> t, limit |-> l, current_index |-> c] :
        t \in PolicyType, l \in LimitValues, c \in 0..(MaxBackends - 1)}

NoOp == [name |-> "init"]

\* Only WeightedPolicy reads weight, only RoundRobinPolicy has a cursor: the
\* weights vary under the weighted policy and the cursor under round-robin.
PolicyInit ==
    /\ cands \in CandidateLists
    /\ pol \in {p \in PolicyObjects : p.type # "round_robin" => p.current_index = 0}
    /\ pol.type # "weighted" => \A i \in 1..Len(cands) : cands[i].weight = 1
    /\ ret = <<>>
    /\ calls = <<>>
    /\ start = pol
    /\ configured = pol.limit
    /\ op = NoOp
    /\ pc = <<>> /\ loc = <<>> /\ out = <<>>
    /\ table = <<>> /\ POLICY_MAP = <<>> /\ issued = {} /\ policies = <<>>

\* policy.select_backends(cands)
Select ==
    /\ Len(calls) < MaxCalls
    /\ \E shuffled \in Shuffles(ActiveBackends(cands)) :
         LET r == select_backends(pol, cands, shuffled) IN
         /\ pol' = r.self
         /\ ret' = r.ret
         /\ calls' = IF pol.type = "random" THEN calls ELSE Append(calls, r.ret)
         /\ op' = [name |-> "select", limit |-> pol.limit,
                   current_index |-> pol.current_index]
    /\ UNCHANGED <<cands, start, configured, threadVars, table, schedVars, policies>>

\* between two calls the state of a candidate is changed (update_backend_state)
SetState ==
    \E i \in 1..Len(cands), s \in States :
        /\ cands[i].state # s
        /\ cands' = [cands EXCEPT ![i].state = s]
        /\ calls' = <<>>
        /\ start' = pol
        /\ op' = [name |-> "set_state"]
        /\ UNCHANGED <<pol, ret, configured, threadVars, table, schedVars, policies>>

\* between two calls a candidate is removed (remove_backend)
Remove ==
    \E i \in 1..Len(cands) :
        /\ cands' = SubSeq(cands, 1, i - 1) \o SubSeq(cands, i + 1, Len(cands))
        /\ calls' = <<>>
        /\ start' = pol
        /\ op' = [name |-> "remove"]
        /\ UNCHANGED <<pol, ret, configured, threadVars, table, schedVars, policies>>

PolicyNext == Select \/ SetState \/ Remove

PolicySpec == PolicyInit /\ [][PolicyNext]_vars

----------------------------------------------------------------------------
(* LimitSpec: select_backends calls on one policy object over an unchanged     *)
(* candidate list, with update_limit called between them                       *)

\* policy.update_limit(new_limit)
UpdateLimit ==
    \E new_limit \in 0..MaxLimit :
        /\ pol' = update_limit(pol, new_limit)
        /\ configured' = Some(new_limit)
        /\ calls' = <<>>
        /\ start' = pol'
        /\ op' = [name |-> "update_limit", before |-> pol, new_limit |-> new_limit]
        /\ UNCHANGED <<cands, ret, threadVars, table, schedVars, policies>>

LimitNext == Select \/ UpdateLimit

LimitSpec == PolicyInit /\ [][LimitNext]_vars

----------------------------------------------------------------------------
(* RaceSpec: NumThreads threads each call select_backends once on the same     *)
(* RoundRobinPolicy object (the one POLICY_MAP holds for every request), with  *)
(* the same candidate list.  The method takes no lock, so the threads          *)
(* interleave between its reads and writes of self.limit and                   *)
(* self._current_index.                                                        *)

Threads == 1..NumThreads

RaceInit ==
    /\ cands \in {c \in CandidateLists : \A i \in 1..Len(c) : c[i].weight = 1}
    /\ pol = NewPolicy("round_robin", Some(1))
    /\ pc = [t \in Threads |-> "call"]
    /\ loc = [t \in Threads |-> [active_backends |-> <<>>, backends_view |-> <<>>,
                                 next_index |-> 0]]
    /\ out = [t \in Threads |-> <<>>]
    /\ ret = <<>> /\ calls = <<>> /\ start = pol /\ configured = pol.limit
    /\ op = NoOp
    /\ table = <<>> /\ POLICY_MAP = <<>> /\ issued = {} /\ policies = <<>>

\* lines 39-44: the early returns and the filter
rr_filter(t) ==
    /\ pc[t] = "call"
    /\ IF cands = <<>> \/ ActiveBackends(cands) = <<>>
       THEN /\ pc' = [pc EXCEPT ![t] = "done"]
            /\ UNCHANGED loc
       ELSE /\ pc' = [pc EXCEPT ![t] = "limit"]
            /\ loc' = [loc EXCEPT ![t].active_backends = ActiveBackends(cands)]
    /\ op' = [name |-> "rr_filter", thread |-> t]
    /\ UNCHANGED <<cands, pol, out, policyVars, table, schedVars, policies>>

\* line 47: self.limit = min(self.limit or 1, len(active_backends))
rr_limit(t) ==
    /\ pc[t] = "limit"
    /\ pol' = [pol EXCEPT !.limit =
                  Some(Min(LimitOr1(pol.limit), Len(loc[t].active_backends)))]
    /\ pc' = [pc EXCEPT ![t] = "view_tail"]
    /\ op' = [name |-> "rr_limit", thread |-> t]
    /\ UNCHANGED <<cands, loc, out, policyVars, table, schedVars, policies>>

\* line 50, left operand: active_backends[self._current_index:]
rr_view_tail(t) ==
    /\ pc[t] = "view_tail"
    /\ loc' = [loc EXCEPT ![t].backends_view =
                  PySuffix(loc[t].active_backends, pol.current_index)]
    /\ pc' = [pc EXCEPT ![t] = "view_head"]
    /\ op' = [name |-> "rr_view_tail", thread |-> t]
    /\ UNCHANGED <<cands, pol, out, policyVars, table, schedVars, policies>>

\* line 50, right operand and sum: ... + active_backends[:self._current_index]
rr_view_head(t) ==
    /\ pc[t] = "view_head"
    /\ loc' = [loc EXCEPT ![t].backends_view =
                  loc[t].backends_view
                  \o PyPrefix(loc[t].active_backends, pol.current_index)]
    /\ pc' = [pc EXCEPT ![t] = "index_read"]
    /\ op' = [name |-> "rr_view_head", thread |-> t]
    /\ UNCHANGED <<cands, pol, out, policyVars, table, schedVars, policies>>

\* line 53, right-hand side: (self._current_index + self.limit) % len(active_backends)
rr_index_read(t) ==
    /\ pc[t] = "index_read"
    /\ loc' = [loc EXCEPT ![t].next_index =
                  (pol.current_index + pol.limit[1]) % Len(loc[t].active_backends)]
    /\ pc' = [pc EXCEPT ![t] = "index_write"]
    /\ op' = [name |-> "rr_index_read", thread |-> t]
    /\ UNCHANGED <<cands, pol, out, policyVars, table, schedVars, policies>>

\* line 53, the store to self._current_index
rr_index_write(t) ==
    /\ pc[t] = "index_write"
    /\ pol' = [pol EXCEPT !.current_index = loc[t].next_index]
    /\ pc' = [pc EXCEPT ![t] = "return"]
    /\ op' = [name |-> "rr_index_write", thread |-> t]
    /\ UNCHANGED <<cands, loc, out, policyVars, table, schedVars, policies>>

\* line 56: return self._apply_limit(backends_view)
rr_return(t) ==
    /\ pc[t] = "return"
    /\ out' = [out EXCEPT ![t] = apply_limit(pol.limit, loc[t].backends_view)]
    /\ pc' = [pc EXCEPT ![t] = "done"]
    /\ op' = [name |-> "rr_return", thread |-> t]
    /\ UNCHANGED <<cands, pol, loc, policyVars, table, schedVars, policies>>

RaceNext ==
    \E t \in Threads :
        \/ rr_filter(t)
        \/ rr_limit(t)
        \/ rr_view_tail(t)
        \/ rr_view_head(t)
        \/ rr_index_read(t)
        \/ rr_index_write(t)
        \/ rr_return(t)

RaceSpec == RaceInit /\ [][RaceNext]_vars

----------------------------------------------------------------------------
(* database.py and db_operations.py: the backends table and the store          *)
(* operations.  The table is the list of its rows in insertion order, the      *)
(* order in which a query returns them.                                        *)

Apps == {"a1", "a2"}
Hosts == {InstanceAt(i) : i \in 1..MaxHosts}
NullId == "NULL"

NoError == "none"
AlreadyExists == "ValueError: Backend with <instance_id> already exists"
NotFound == "ValueError: Backend not found"
BadState == "ValueError: State must be either 'active' or 'down'"
EmptyAppId == "ValueError: New app_id cannot be empty"
BadWeight == "ValueError: Weight must be greater than 0"
IntegrityError == "sqlalchemy.exc.IntegrityError"

\* the class of the exception object that carries each error out of
\* DBOperations: every raise in the file is raise ValueError(...), the
\* constraint violation comes from the database driver
ExceptionClass(error) ==
    IF error = IntegrityError THEN "IntegrityError" ELSE "ValueError"

\* BackendDB.instance_id = Column(String, unique=True)
UniqueViolation(rows, row) ==
    \E i \in 1..Len(rows) : rows[i].instance_id = row.instance_id

\* BackendDB.id = Column(String, primary_key=True); a row stored without id
\* has the column empty
PrimaryKeyViolation(rows, row) ==
    row.id # NullId /\ \E i \in 1..Len(rows) : rows[i].id = row.id

\* db.add(row); db.commit(): the constraints of the table decide
Insert(rows, row) ==
    IF UniqueViolation(rows, row) \/ PrimaryKeyViolation(rows, row)
    THEN [table |-> rows, error |-> IntegrityError]
    ELSE [table |-> Append(rows, row), error |-> NoError]

\* the lookup filtering on instance_id alone
FirstMatch_AnyApp(rows, app_id, backend_id) ==
    LET hit == {i \in 1..Len(rows) : rows[i].instance_id = backend_id}
    IN IF hit = {} THEN 0 ELSE CHOOSE i \in hit : \A j \in hit : i <= j

\* db.query(BackendDB).filter(app_id == .., instance_id == ..).first(): the
\* index of the first row that matches, 0 for None
FirstMatch(rows, app_id, backend_id) ==
    LET hit == {i \in 1..Len(rows) :
                  rows[i].app_id = app_id /\ rows[i].instance_id = backend_id}
    IN IF hit = {} THEN 0 ELSE CHOOSE i \in hit : \A j \in hit : i <= j

Without(rows, i) == SubSeq(rows, 1, i - 1) \o SubSeq(rows, i + 1, Len(rows))

\* the existence check of add_backend looking only at the rows of the same app
existing_backend_SameApp(rows, backend) ==
    \E i \in 1..Len(rows) :
        rows[i].instance_id = backend.instance_id /\ rows[i].app_id = backend.app_id

\* db.query(BackendDB).filter(BackendDB.instance_id == backend.instance_id).first()
existing_backend(rows, backend) ==
    \E i \in 1..Len(rows) : rows[i].instance_id = backend.instance_id

\* the BackendDB row add_backend builds: no id is passed, and a weight of None
\* is left out of the INSERT, so that the column takes its default=1
NewRow(backend) ==
    [id |-> NullId, app_id |-> backend.app_id, instance_id |-> backend.instance_id,
     weight |-> IF backend.weight = None THEN 1 ELSE backend.weight[1],
     state |-> backend.state]

\* DBOperations.add_backend
DB_add_backend(rows, backend) ==
    IF existing_backend(rows, backend)
    THEN [table |-> rows, error |-> AlreadyExists]
    ELSE Insert(rows, NewRow(backend))

\* DBOperations.get_app_backends
DB_get_app_backends(rows, app_id) == SelectSeq(rows, LAMBDA b : b.app_id = app_id)

\* DBOperations.remove_backend
DB_remove_backend(rows, app_id, backend_id) ==
    LET i == FirstMatch(rows, app_id, backend_id) IN
    IF i = 0 THEN [table |-> rows, error |-> NotFound, ret |-> None]
    ELSE [table |-> Without(rows, i), error |-> NoError, ret |-> Some(rows[i])]

\* update_backend_state without the check of the state value
DB_update_backend_state_Unchecked(rows, app_id, backend_id, state) ==
    LET i == FirstMatch(rows, app_id, backend_id) IN
    IF i = 0 THEN [table |-> rows, error |-> NotFound]
    ELSE [table |-> [rows EXCEPT ![i].state = state], error |-> NoError]

\* DBOperations.update_backend_state
DB_update_backend_state(rows, app_id, backend_id, state) ==
    LET i == FirstMatch(rows, app_id, backend_id) IN
    IF state \notin {"active", "down"} THEN [table |-> rows, error |-> BadState]
    ELSE IF i = 0 THEN [table |-> rows, error |-> NotFound]
    ELSE [table |-> [rows EXCEPT ![i].state = state], error |-> NoError]

\* update_backend_app_id writing the new app_id to every row of the app
DB_update_backend_app_id_WholeApp(rows, current_app_id, backend_id, new_app_id) ==
    LET i == FirstMatch(rows, current_app_id, backend_id) IN
    IF new_app_id = "" THEN [table |-> rows, error |-> EmptyAppId]
    ELSE IF i = 0 THEN [table |-> rows, error |-> NotFound]
    ELSE [table |-> [j \in 1..Len(rows) |->
                       IF rows[j].app_id = current_app_id
                       THEN [rows[j] EXCEPT !.app_id = new_app_id] ELSE rows[j]],
          error |-> NoError]

\* DBOperations.update_backend_app_id
DB_update_backend_app_id(rows, current_app_id, backend_id, new_app_id) ==
    LET i == FirstMatch(rows, current_app_id, backend_id) IN
    IF new_app_id = "" THEN [table |-> rows, error |-> EmptyAppId]
    ELSE IF i = 0 THEN [table |-> rows, error |-> NotFound]
    ELSE [table |-> [rows EXCEPT ![i].app_id = new_app_id], error |-> NoError]

\* update_backend_weight rejecting negative weights only
DB_update_backend_weight_ZeroAllowed(rows, app_id, backend_id, weight) ==
    LET i == FirstMatch(rows, app_id, backend_id) IN
    IF weight < 0 THEN [table |-> rows, error |-> BadWeight]
    ELSE IF i = 0 THEN [table |-> rows, error |-> NotFound]
    ELSE [table |-> [rows EXCEPT ![i].weight = weight], error |-> NoError]

\* DBOperations.update_backend_weight
DB_update_backend_weight(rows, app_id, backend_id, weight) ==
    LET i == FirstMatch(rows, app_id, backend_id) IN
    IF weight < 1 THEN [table |-> rows, error |-> BadWeight]
    ELSE IF i = 0 THEN [table |-> rows, error |-> NotFound]
    ELSE [table |-> [rows EXCEPT ![i].weight = weight], error |-> NoError]

----------------------------------------------------------------------------
(* RegistrySpec: the store operations called one after the other *)

\* the weights a Backend can carry (weight: Optional[int], not validated)
WeightInputs == {None} \cup {Some(w) : w \in 0..MaxWeight}

\* the Backend objects a caller can hand to add_backend; the validator of the
\* model admits the states active and down only
BackendInputs ==
    {[app_id |-> a, instance_id |-> h, weight |-> w, state |-> st] :
        a \in Apps, h \in Hosts, w \in WeightInputs, st \in States}

RegistryInit ==
    /\ table = <<>>
    /\ op = NoOp
    /\ cands = <<>> /\ pol = <<>> /\ ret = <<>> /\ calls = <<>>
    /\ start = <<>> /\ configured = <<>>
    /\ pc = <<>> /\ loc = <<>> /\ out = <<>>
    /\ POLICY_MAP = <<>> /\ issued = {} /\ policies = <<>>

add_backend ==
    \E backend \in BackendInputs :
        LET r == DB_add_backend(table, backend) IN
        /\ table' = r.table
        /\ op' = [name |-> "add_backend", error |-> r.error, before |-> table,
                  app_id |-> backend.app_id, backend_id |-> backend.instance_id]
        /\ UNCHANGED <<objectVars, threadVars, schedVars, policies>>

remove_backend ==
    \E app_id \in Apps, backend_id \in Hosts :
        LET r == DB_remove_backend(table, app_id, backend_id) IN
        /\ table' = r.table
        /\ op' = [name |-> "remove_backend", error |-> r.error, before |-> table,
                  app_id |-> app_id, backend_id |-> backend_id, ret |-> r.ret]
        /\ UNCHANGED <<objectVars, threadVars, schedVars, policies>>

update_backend_state ==
    \E app_id \in Apps, backend_id \in Hosts, state \in States \cup {"invalid"} :
        LET r == DB_update_backend_state(table, app_id, backend_id, state) IN
        /\ table' = r.table
        /\ op' = [name |-> "update_backend_state", error |-> r.error, before |-> table,
                  app_id |-> app_id, backend_id |-> backend_id, state |-> state]
        /\ UNCHANGED <<objectVars, threadVars, schedVars, policies>>

update_backend_app_id ==
    \E current_app_id \in Apps, backend_id \in Hosts, new_app_id \in Apps \cup {""} :
        LET r == DB_update_backend_app_id(table, current_app_id, backend_id, new_app_id) IN
        /\ table' = r.table
        /\ op' = [name |-> "update_backend_app_id", error |-> r.error, before |-> table,
                  app_id |-> current_app_id, backend_id |-> backend_id,
                  new_app_id |-> new_app_id]
        /\ UNCHANGED <<objectVars, threadVars, schedVars, policies>>

update_backend_weight ==
    \E app_id \in Apps, backend_id \in Hosts, weight \in -1..MaxWeight :
        LET r == DB_update_backend_weight(table, app_id, backend_id, weight) IN
        /\ table' = r.table
        /\ op' = [name |-> "update_backend_weight", error |-> r.error, before |-> table,
                  app_id |-> app_id, backend_id |-> backend_id, weight |-> weight]
        /\ UNCHANGED <<objectVars, threadVars, schedVars, policies>>

get_app_backends ==
    \E app_id \in Apps :
        /\ op' = [name |-> "get_app_backends", error |-> NoError, before |-> table, app_id |-> app_id,
                  data |-> DB_get_app_backends(table, app_id)]
        /\ UNCHANGED <<objectVars, threadVars, table, schedVars, policies>>

RegistryNext ==
    \/ add_backend
    \/ get_app_backends
    \/ remove_backend
    \/ update_backend_state
    \/ update_backend_app_id
    \/ update_backend_weight

RegistrySpec == RegistryInit /\ [][RegistryNext]_vars

----------------------------------------------------------------------------
(* The policies table (PolicyDB, one row per app_id) and the store operations  *)
(* on it.  A row is [app_id, policy_type, limit]; the table is the list of     *)
(* its rows in insertion order.                                                *)

PolicyOfAppNotFound == "ValueError: Policy of <app_id> not found"

\* the Policy objects a caller can hand to the store: a policy type and a limit
PolicyInputs ==
    {[policy_type |-> t, limit |-> l] : t \in PolicyType, l \in 0..MaxLimit}

\* db.query(PolicyDB).filter(PolicyDB.app_id == app_id).first(), 0 for None
FirstPolicy(rows, app_id) ==
    LET hit == {i \in 1..Len(rows) : rows[i].app_id = app_id}
    IN IF hit = {} THEN 0 ELSE CHOOSE i \in hit : \A j \in hit : i <= j

\* DBOperations.add_or_update_policy
DB_add_or_update_policy(rows, app_id, policy) ==
    LET i == FirstPolicy(rows, app_id)
        row == [app_id |-> app_id, policy_type |-> policy.policy_type,
                limit |-> policy.limit]
    IN [policies |-> IF i = 0 THEN Append(rows, row) ELSE [rows EXCEPT ![i] = row],
        error |-> NoError, ret |-> Some(row)]

\* DBOperations.remove_policy
DB_remove_policy(rows, app_id) ==
    LET i == FirstPolicy(rows, app_id) IN
    IF i = 0 THEN [policies |-> rows, error |-> PolicyOfAppNotFound, ret |-> None]
    ELSE [policies |-> Without(rows, i), error |-> NoError, ret |-> Some(rows[i])]

\* DBOperations.update_policy
DB_update_policy(rows, app_id, policy) ==
    LET i == FirstPolicy(rows, app_id)
        row == [app_id |-> app_id, policy_type |-> policy.policy_type,
                limit |-> policy.limit]
    IN IF i = 0 THEN [policies |-> rows, error |-> PolicyOfAppNotFound, ret |-> None]
       ELSE [policies |-> [rows EXCEPT ![i] = row], error |-> NoError,
             ret |-> Some(row)]

\* DBOperations.get_policy
DB_get_policy(rows, app_id) ==
    LET i == FirstPolicy(rows, app_id) IN
    IF i = 0 THEN [policies |-> rows, error |-> PolicyOfAppNotFound, ret |-> None]
    ELSE [policies |-> rows, error |-> NoError, ret |-> Some(rows[i])]

\* DBOperations.update_policy_limit: the row of the app is looked up by
\* app_id and policy_type together
DB_update_policy_limit(rows, app_id, policy) ==
    LET hit == {i \in 1..Len(rows) : /\ rows[i].app_id = app_id
                                     /\ rows[i].policy_type = policy.policy_type}
        i == IF hit = {} THEN 0 ELSE CHOOSE k \in hit : \A j \in hit : k <= j
    IN IF i = 0 THEN [policies |-> rows, error |-> PolicyOfAppNotFound, ret |-> None]
       ELSE [policies |-> [rows EXCEPT ![i].limit = policy.limit], error |-> NoError,
             ret |-> Some([rows[i] EXCEPT !.limit = policy.limit])]

----------------------------------------------------------------------------
(* PolicyStoreSpec: the store operations on the policies table called one      *)
(* after the other                                                             *)

add_or_update_policy ==
    \E app_id \in Apps, policy \in PolicyInputs :
        LET r == DB_add_or_update_policy(policies, app_id, policy) IN
        /\ policies' = r.policies
        /\ op' = [name |-> "add_or_update_policy", error |-> r.error,
                  app_id |-> app_id, policy |-> policy, ret |-> r.ret]
        /\ UNCHANGED <<objectVars, threadVars, table, schedVars>>

remove_policy ==
    \E app_id \in Apps :
        LET r == DB_remove_policy(policies, app_id) IN
        /\ policies' = r.policies
        /\ op' = [name |-> "remove_policy", error |-> r.error,
                  app_id |-> app_id, ret |-> r.ret]
        /\ UNCHANGED <<objectVars, threadVars, table, schedVars>>

update_policy ==
    \E app_id \in Apps, policy \in PolicyInputs :
        LET r == DB_update_policy(policies, app_id, policy) IN
        /\ policies' = r.policies
        /\ op' = [name |-> "update_policy", error |-> r.error,
                  app_id |-> app_id, policy |-> policy, ret |-> r.ret]
        /\ UNCHANGED <<objectVars, threadVars, table, schedVars>>

get_policy ==
    \E app_id \in Apps :
        LET r == DB_get_policy(policies, app_id) IN
        /\ op' = [name |-> "get_policy", error |-> r.error,
                  app_id |-> app_id, ret |-> r.ret]
        /\ UNCHANGED <<objectVars, threadVars, table, schedVars, policies>>

update_policy_limit ==
    \E app_id \in Apps, policy \in PolicyInputs :
        LET r == DB_update_policy_limit(policies, app_id, policy) IN
        /\ policies' = r.policies
        /\ op' = [name |-> "update_policy_limit", error |-> r.error,
                  app_id |-> app_id, policy |-> policy, ret |-> r.ret]
        /\ UNCHANGED <<objectVars, threadVars, table, schedVars>>

PolicyStoreNext ==
    \/ add_or_update_policy
    \/ remove_policy
    \/ update_policy
    \/ get_policy
    \/ update_policy_limit

PolicyStoreSpec == RegistryInit /\ [][PolicyStoreNext]_vars

----------------------------------------------------------------------------
(* AddRaceSpec: NumThreads requests call DBOperations.add_backend at the same  *)
(* time, each on its own session.  A call is two steps, the existence query    *)
(* and the commit; the table's constraints are checked at the commit.          *)

AddRaceInit ==
    /\ table = <<>>
    /\ pc = [t \in Threads |-> "query"]
    /\ loc \in [Threads -> BackendInputs]
    /\ out = [t \in Threads |-> "running"]
    /\ op = NoOp
    /\ cands = <<>> /\ pol = <<>> /\ ret = <<>> /\ calls = <<>>
    /\ start = <<>> /\ configured = <<>>
    /\ POLICY_MAP = <<>> /\ issued = {} /\ policies = <<>>

\* lines 11-13: the existence query and the raise
add_query(t) ==
    /\ pc[t] = "query"
    /\ IF existing_backend(table, loc[t])
       THEN /\ pc' = [pc EXCEPT ![t] = "done"]
            /\ out' = [out EXCEPT ![t] = AlreadyExists]
       ELSE /\ pc' = [pc EXCEPT ![t] = "commit"]
            /\ out' = out
    /\ op' = [name |-> "add_query", thread |-> t]
    /\ UNCHANGED <<objectVars, loc, table, schedVars, policies>>

\* lines 15-26: db.add, db.commit and the return
add_commit(t) ==
    /\ pc[t] = "commit"
    /\ LET r == Insert(table, NewRow(loc[t])) IN
       /\ table' = r.table
       /\ out' = [out EXCEPT ![t] = r.error]
    /\ pc' = [pc EXCEPT ![t] = "done"]
    /\ op' = [name |-> "add_commit", thread |-> t]
    /\ UNCHANGED <<objectVars, loc, schedVars, policies>>

AddRaceNext == \E t \in Threads : add_query(t) \/ add_commit(t)

AddRaceSpec == AddRaceInit /\ [][AddRaceNext]_vars

----------------------------------------------------------------------------
(* backend_scheduler.py: POLICY_MAP, BackendScheduler and the request          *)
(* handlers in front of it.  This file keeps a backend's identity in the host  *)
(* column and looks rows up by id.                                             *)

\* Backend.id: str = str(uuid.uuid4()): the default is computed once, when the
\* class body runs, and every Backend built without an id carries it
DefaultId == "uuid4-of-class-definition"

\* an id the caller puts into the request body, one per host
ExplicitId(host) == host

HostExists == "HTTPException 400: Backend with this host already exists"
BackendNotFound == "HTTPException 404: Backend not found"
BadStatus == "HTTPException 400: Status must be either 'active' or 'down'"
UnmappedInstance == "sqlalchemy.orm.exc.UnmappedInstanceError"
PolicyNotFound == "Policy not found"

\* POLICY_MAP as the module is imported
InitialPolicyMap ==
    [t \in PolicyType |->
        NewPolicy(t, Some(CASE t = "round_robin" -> 1
                            [] t = "weighted"    -> 3
                            [] t = "all_active"  -> 5
                            [] t = "random"      -> 1))]

\* BackendScheduler.__init__: self.default_policy = AllActivePolicy()
default_policy == NewPolicy("all_active", Some(1))

\* Backend.from_orm(row): the fields of the Backend model of this file
from_orm(row) ==
    [id |-> row.id, host |-> row.instance_id, weight |-> row.weight,
     status |-> row.state]

\* BackendScheduler.add_backend
Sched_add_backend(rows, app_id, backend) ==
    IF \E i \in 1..Len(rows) : rows[i].instance_id = backend.host
    THEN [table |-> rows, error |-> HostExists]
    ELSE Insert(rows, [id |-> backend.id, app_id |-> app_id,
                       instance_id |-> backend.host, weight |-> backend.weight,
                       state |-> backend.status])

\* db.query(BackendDB).filter(app_id == .., id == ..).first(), 0 for None
FirstById(rows, app_id, backend_id) ==
    LET hit == {i \in 1..Len(rows) :
                  rows[i].app_id = app_id /\ rows[i].id = backend_id}
    IN IF hit = {} THEN 0 ELSE CHOOSE i \in hit : \A j \in hit : i <= j

\* BackendScheduler.remove_backend
Sched_remove_backend(rows, app_id, backend_id) ==
    LET i == FirstById(rows, app_id, backend_id) IN
    IF i = 0 THEN [table |-> rows, error |-> BackendNotFound]
    ELSE [table |-> Without(rows, i), error |-> NoError]

\* BackendScheduler.update_backend_status
Sched_update_backend_status(rows, app_id, backend_id, status) ==
    LET i == FirstById(rows, app_id, backend_id) IN
    IF status \notin {"active", "down"} THEN [table |-> rows, error |-> BadStatus]
    ELSE IF i = 0 THEN [table |-> rows, error |-> BackendNotFound]
    ELSE [table |-> [rows EXCEPT ![i].state = status], error |-> NoError]

\* BackendScheduler.get_backends: db.refresh(...first()) raises when the app
\* has no row; otherwise the policy selects among the rows of the app
Sched_get_backends(rows, app_id, policy, shuffled) ==
    LET backends == SelectSeq(rows, LAMBDA b : b.app_id = app_id) IN
    IF backends = <<>>
    THEN [policy |-> policy, error |-> UnmappedInstance, data |-> <<>>]
    ELSE LET r == select_backends(policy, backends, shuffled) IN
         [policy |-> r.self, error |-> NoError,
          data |-> [i \in 1..Len(r.ret) |-> from_orm(r.ret[i])]]

\* get_backends handler: POLICY_MAP.get(policy) if policy else None, and
\* policy or self.default_policy in the scheduler.  The object found does not
\* depend on app_id.
PolicyFor(app_id, policy) ==
    IF policy = None THEN default_policy ELSE POLICY_MAP[policy[1]]

\* an update of the limit that reaches every policy of the map
Sched_update_policy_limit_AllTypes(policy_map, policy_type, new_limit) ==
    IF policy_type \notin DOMAIN policy_map
    THEN [policy_map |-> policy_map, code |-> 1, msg |-> PolicyNotFound,
          data |-> None]
    ELSE [policy_map |-> [t \in DOMAIN policy_map |->
                            update_limit(policy_map[t], new_limit)],
          code |-> 0, msg |-> "Updated limit",
          data |-> [policy |-> policy_type, new_limit |-> new_limit]]

\* BackendScheduler.update_policy_limit
Sched_update_policy_limit(policy_map, policy_type, new_limit) ==
    IF policy_type \notin DOMAIN policy_map
    THEN [policy_map |-> policy_map, code |-> 1, msg |-> PolicyNotFound,
          data |-> None]
    ELSE [policy_map |-> [policy_map EXCEPT
                            ![policy_type] = update_limit(@, new_limit)],
          code |-> 0, msg |-> "Updated limit",
          data |-> [policy |-> policy_type, new_limit |-> new_limit]]

\* BackendScheduler.get_supported_policies: one descriptor per entry of
\* POLICY_MAP, the limit read from the policy object
Sched_get_supported_policies(policy_map) ==
    [code |-> 0, msg |-> "Successfully retrieved supported policies",
     data |-> {[type |-> t, limit |-> policy_map[t].limit] : t \in DOMAIN policy_map}]

----------------------------------------------------------------------------
(* Spec: requests served one after the other by the handlers of              *)
(* backend_scheduler.py                                                        *)

\* the Backend objects built from a request body: with or without an id, the
\* weight left to its default (weight: Optional[int] = 1)
BackendBodies ==
    UNION {{[id |-> i, host |-> h, weight |-> 1, status |-> st] :
              i \in {DefaultId, ExplicitId(h)}, st \in States}
           : h \in Hosts}

BackendIds == {DefaultId} \cup {ExplicitId(h) : h \in Hosts}

Init ==
    /\ table = <<>>
    /\ POLICY_MAP = InitialPolicyMap
    /\ issued = {}
    /\ policies = <<>>
    /\ op = NoOp
    /\ cands = <<>> /\ pol = <<>> /\ ret = <<>> /\ calls = <<>>
    /\ start = <<>> /\ configured = <<>>
    /\ pc = <<>> /\ loc = <<>> /\ out = <<>>

\* POST /v1/{app_id}/backends
post_backend ==
    \E app_id \in Apps, backend \in BackendBodies :
        LET r == Sched_add_backend(table, app_id, backend) IN
        /\ table' = r.table
        /\ issued' = IF r.error = NoError /\ backend.id = DefaultId
                     THEN issued \cup {backend.id}
                     ELSE issued
        /\ op' = [name |-> "post_backend", error |-> r.error, app_id |-> app_id,
                  id |-> backend.id, explicit |-> backend.id # DefaultId]
        /\ UNCHANGED <<objectVars, threadVars, POLICY_MAP, policies>>

\* DELETE /v1/{app_id}/backends/{backend_id}
delete_backend ==
    \E app_id \in Apps, backend_id \in BackendIds :
        LET r == Sched_remove_backend(table, app_id, backend_id) IN
        /\ table' = r.table
        /\ op' = [name |-> "delete_backend", error |-> r.error, app_id |-> app_id]
        /\ UNCHANGED <<objectVars, threadVars, schedVars, policies>>

\* PATCH /v1/{app_id}/backends/{backend_id}
patch_backend_status ==
    \E app_id \in Apps, backend_id \in BackendIds, status \in States \cup {"invalid"} :
        LET r == Sched_update_backend_status(table, app_id, backend_id, status) IN
        /\ table' = r.table
        /\ op' = [name |-> "patch_backend_status", error |-> r.error, app_id |-> app_id]
        /\ UNCHANGED <<objectVars, threadVars, schedVars, policies>>

\* GET /v1/{app_id}/backends?policy=<type>
get_backends ==
    \E app_id \in Apps, policy \in {None} \cup {Some(t) : t \in PolicyType} :
        \E shuffled \in Shuffles(ActiveBackends(DB_get_app_backends(table, app_id))) :
            LET r == Sched_get_backends(table, app_id, PolicyFor(app_id, policy), shuffled) IN
            /\ POLICY_MAP' = IF policy = None THEN POLICY_MAP
                             ELSE [POLICY_MAP EXCEPT ![policy[1]] = r.policy]
            /\ op' = [name |-> "get_backends", error |-> r.error, app_id |-> app_id,
                      policy |-> policy, data |-> r.data]
            /\ UNCHANGED <<objectVars, threadVars, table, issued, policies>>

\* PATCH /v1/policies/{policy_type}/limit, and update_policy_limit called directly.
\* The runs followed change the limit of one policy type only: the others
\* still have the limit POLICY_MAP gave them.
patch_policy_limit ==
    \E policy_type \in PolicyType \cup {"invalid_policy"}, new_limit \in 0..MaxLimit :
        LET r == Sched_update_policy_limit(POLICY_MAP, policy_type, new_limit) IN
        /\ \A t \in PolicyType \ {policy_type} :
             POLICY_MAP[t].limit = InitialPolicyMap[t].limit
        /\ POLICY_MAP' = r.policy_map
        /\ op' = [name |-> "patch_policy_limit", error |-> NoError, code |-> r.code,
                  msg |-> r.msg]
        /\ UNCHANGED <<objectVars, threadVars, table, issued, policies>>

Next ==
    \/ post_backend
    \/ delete_backend
    \/ patch_backend_status
    \/ get_backends
    \/ patch_policy_limit

Spec == Init /\ [][Next]_vars

----------------------------------------------------------------------------
(* PolicyMapSpec: the two methods of BackendScheduler that work on POLICY_MAP *)
(* alone, called directly in any order                                        *)

\* scheduler.update_policy_limit(policy_type, new_limit)
scheduler_update_policy_limit ==
    \E policy_type \in PolicyType \cup {"invalid_policy"}, new_limit \in 0..MaxLimit :
        LET r == Sched_update_policy_limit(POLICY_MAP, policy_type, new_limit) IN
        /\ POLICY_MAP' = r.policy_map
        /\ op' = [name |-> "scheduler.update_policy_limit", before |-> POLICY_MAP,
                  policy_type |-> policy_type, new_limit |-> new_limit,
                  code |-> r.code, msg |-> r.msg, data |-> r.data]
        /\ UNCHANGED <<objectVars, threadVars, table, issued, policies>>

\* scheduler.get_supported_policies()
scheduler_get_supported_policies ==
    LET r == Sched_get_supported_policies(POLICY_MAP) IN
    /\ op' = [name |-> "scheduler.get_supported_policies", before |-> POLICY_MAP,
              code |-> r.code, msg |-> r.msg, data |-> r.data]
    /\ UNCHANGED <<objectVars, threadVars, table, schedVars, policies>>

PolicyMapNext ==
    \/ scheduler_update_policy_limit
    \/ scheduler_get_supported_policies

PolicyMapSpec == Init /\ [][PolicyMapNext]_vars

----------------------------------------------------------------------------
(* CreateSpec: policy objects made by create_policy and used for selections   *)

\* create_policy(policy_type, limit): policy_class(limit=limit), the limit
\* handed on as it came, None included
create_policy(policy_type, limit) ==
    IF policy_type \notin PolicyType
    THEN [error |-> "ValueError: Unknown policy type", policy |-> None]
    ELSE [error |-> NoError, policy |-> NewPolicy(policy_type, limit)]

\* pol = create_policy(policy_type, limit); a failed call leaves the policy in
\* use where it was
Create ==
    \E policy_type \in PolicyType \cup {"invalid_policy"}, limit \in LimitValues :
        LET r == create_policy(policy_type, limit) IN
        /\ pol' = IF r.error = NoError THEN r.policy ELSE pol
        /\ start' = pol'
        /\ configured' = pol'.limit
        /\ calls' = <<>>
        /\ op' = [name |-> "create_policy", policy_type |-> policy_type,
                  limit |-> limit, error |-> r.error]
        /\ UNCHANGED <<cands, ret, threadVars, table, schedVars, policies>>

CreateNext == Create \/ Select

CreateSpec == PolicyInit /\ [][CreateNext]_vars

----------------------------------------------------------------------------
(* RotationSpec: a fresh round-robin policy of limit k over a list of up to   *)
(* MaxBackends + 1 active backends, some of which are set down or removed     *)
(* between the calls                                                           *)

RotationInit ==
    /\ \E n \in 1..(MaxBackends + 1) :
         cands = [i \in 1..n |-> [id |-> InstanceAt(i), app_id |-> "a1",
                                  instance_id |-> InstanceAt(i),
                                  weight |-> 1, state |-> "active"]]
    /\ \E k \in 1..MaxLimit : pol = NewPolicy("round_robin", Some(k))
    /\ ret = <<>>
    /\ calls = <<>>
    /\ start = pol
    /\ configured = pol.limit
    /\ op = NoOp
    /\ pc = <<>> /\ loc = <<>> /\ out = <<>>
    /\ table = <<>> /\ POLICY_MAP = <<>> /\ issued = {} /\ policies = <<>>

RotationSpec == RotationInit /\ [][PolicyNext]_vars

----------------------------------------------------------------------------
(* ConfiguredSpec: an app with its backends registered, whose policy is       *)
(* stored with DBOperations.add_or_update_policy and whose backends are        *)
(* selected by the get_backends handler                                        *)

\* the tables after every host was registered as an active backend of app a1
\* with a weight of at least 1
RegisteredTables ==
    LET bodies(h) == {b \in BackendInputs :
                        /\ b.app_id = "a1" /\ b.instance_id = h
                        /\ b.state = "active"
                        /\ b.weight # None /\ b.weight[1] >= 1}
        RECURSIVE after(_, _)
        after(rows, hosts) ==
            IF hosts = {} THEN {rows}
            ELSE UNION {after(DB_add_backend(rows, b).table, hosts \ {b.instance_id})
                          : b \in UNION {bodies(h) : h \in hosts}}
    IN after(<<>>, Hosts)

ConfiguredInit ==
    /\ table \in RegisteredTables
    /\ POLICY_MAP = InitialPolicyMap
    /\ issued = {}
    /\ policies = <<>>
    /\ op = NoOp
    /\ cands = <<>> /\ pol = <<>> /\ ret = <<>> /\ calls = <<>>
    /\ start = <<>> /\ configured = <<>>
    /\ pc = <<>> /\ loc = <<>> /\ out = <<>>

ConfiguredNext ==
    \/ add_or_update_policy
    \/ get_backends

ConfiguredSpec == ConfiguredInit /\ [][ConfiguredNext]_vars

----------------------------------------------------------------------------
(* api.py: the routes of the router in the order they are registered, and the *)
(* handlers behind them.  A handler makes one call on the scheduler object;   *)
(* what the call comes to, a value returned or an exception raised, is an     *)
(* input of the handler.                                                       *)

\* APIResponse.success(data, msg) and APIResponse.error(msg)
APIResponse_success(data, msg) ==
    [kind |-> "envelope", code |-> 0, msg |-> msg, data |-> data]

APIResponse_error(msg) ==
    [kind |-> "envelope", code |-> 1, msg |-> msg, data |-> None]

\* an exception no except clause of the handler catches: the server answers
\* 500 Internal Server Error without an envelope
Unhandled(error) == [kind |-> "unhandled", error |-> error]

\* a path parameter that fails its declared type: the server answers 422 and
\* the handler is not called
Unprocessable == [kind |-> "http_422"]

Lit(s) == [kind |-> "lit", text |-> s]
Param(s) == [kind |-> "param", text |-> s]

\* the @router decorators from top to bottom
Routes ==
    << [method |-> "POST", handler |-> "add_backend",
        pattern |-> <<Lit("v1"), Lit("backends")>>],
       [method |-> "GET", handler |-> "list_all_backends",
        pattern |-> <<Lit("v1"), Lit("backends"), Lit("all")>>],
       [method |-> "GET", handler |-> "list_app_backends",
        pattern |-> <<Lit("v1"), Param("app_id"), Lit("backends"), Lit("all")>>],
       [method |-> "GET", handler |-> "get_backends",
        pattern |-> <<Lit("v1"), Param("app_id"), Lit("backends")>>],
       [method |-> "DELETE", handler |-> "remove_backend",
        pattern |-> <<Lit("v1"), Param("app_id"), Lit("backends"), Param("backend_id")>>],
       [method |-> "PATCH", handler |-> "update_backend_state",
        pattern |-> <<Lit("v1"), Param("app_id"), Lit("backends"), Param("backend_id")>>],
       [method |-> "PATCH", handler |-> "update_backend_app",
        pattern |-> <<Lit("v1"), Param("app_id"), Lit("backends"), Param("backend_id"),
                      Param("new_app_id")>>],
       [method |-> "PATCH", handler |-> "update_backend_weight",
        pattern |-> <<Lit("v1"), Param("app_id"), Lit("backends"), Param("backend_id"),
                      Param("weight")>>],
       [method |-> "GET", handler |-> "list_policies",
        pattern |-> <<Lit("v1"), Lit("policies")>>],
       [method |-> "GET", handler |-> "get_policy",
        pattern |-> <<Lit("v1"), Param("app_id"), Lit("policy")>>],
       [method |-> "PATCH", handler |-> "update_policy",
        pattern |-> <<Lit("v1"), Param("app_id"), Lit("policy")>>] >>

\* a route matches a request of its method whose path has the literal segments
\* of the pattern; a parameter takes any segment
Matches(route, method, path) ==
    /\ route.method = method
    /\ Len(route.pattern) = Len(path)
    /\ \A i \in 1..Len(path) :
         route.pattern[i].kind = "lit" => route.pattern[i].text = path[i]

\* the router tries the routes in the order of registration and the first
\* one that matches serves the request; 0 when none matches
Dispatch(method, path) ==
    LET hit == {i \in 1..Len(Routes) : Matches(Routes[i], method, path)} IN
    IF hit = {} THEN 0 ELSE CHOOSE i \in hit : \A j \in hit : i <= j

\* the value of a path parameter of the route
PathParam(route, path, name) ==
    path[CHOOSE i \in 1..Len(route.pattern) : route.pattern[i] = Param(name)]

\* str(n) and int(text) for the numbers that occur in a path
IntTexts == 0..(MaxWeight + 1)
IsIntText(text) == \E n \in IntTexts : ToString(n) = text
ParseInt(text) == CHOOSE n \in IntTexts : ToString(n) = text

Returned(value) == [kind |-> "returned", value |-> value]
Raised(error) == [kind |-> "raised", error |-> error]

\* if result: a list is true when it has an element, an object is true
Truthy(value) == value.type # "list" \/ value.items # <<>>

Called(method, args) == Some([method |-> method, args |-> args])

\* add_backend
api_add_backend(backend, r) ==
    [called |-> Called("add_backend", <<backend>>),
     response |->
        IF r.kind = "returned"
        THEN APIResponse_success(Some([backend |-> r.value.first,
                                       policy |-> r.value.second]),
                                 "Backend added successfully")
        ELSE IF r.error = "pydantic.ValidationError"
        THEN APIResponse_error("Validation error: " \o r.error)
        ELSE APIResponse_error(r.error)]

\* list_all_backends: no try around the call
api_list_all_backends(r) ==
    [called |-> Called("get_all_backends", <<>>),
     response |-> IF r.kind = "returned"
                  THEN APIResponse_success(Some(r.value), "success")
                  ELSE Unhandled(r.error)]

\* list_app_backends: no try around the call
api_list_app_backends(app_id, r) ==
    [called |-> Called("get_all_app_backends", <<app_id>>),
     response |-> IF r.kind = "raised" THEN Unhandled(r.error)
                  ELSE IF Truthy(r.value)
                  THEN APIResponse_success(Some(r.value), "success")
                  ELSE APIResponse_error("No backends found for app_id=" \o app_id)]

\* get_backends: no try around the call
api_get_backends(app_id, r) ==
    [called |-> Called("get_app_backends", <<app_id>>),
     response |-> IF r.kind = "raised" THEN Unhandled(r.error)
                  ELSE IF Truthy(r.value)
                  THEN APIResponse_success(Some(r.value), "success")
                  ELSE APIResponse_error("No backends found for app_id=" \o app_id)]

\* remove_backend
api_remove_backend(app_id, backend_id, r) ==
    [called |-> Called("remove_backend", <<app_id, backend_id>>),
     response |-> IF r.kind = "returned"
                  THEN APIResponse_success(None, "Backend removed successfully")
                  ELSE APIResponse_error(r.error)]

\* update_backend_state
api_update_backend_state(app_id, backend_id, state, r) ==
    [called |-> Called("update_backend_state", <<app_id, backend_id, state>>),
     response |-> IF r.kind = "returned"
                  THEN APIResponse_success(None, "Backend state updated to " \o state)
                  ELSE APIResponse_error(r.error)]

\* update_backend_app
api_update_backend_app(app_id, backend_id, new_app_id, r) ==
    [called |-> Called("update_backend_app_id", <<app_id, backend_id, new_app_id>>),
     response |-> IF r.kind = "returned"
                  THEN APIResponse_success(None, "Backend app_id updated to "
                                                 \o new_app_id)
                  ELSE APIResponse_error(r.error)]

\* update_backend_weight
api_update_backend_weight(app_id, backend_id, weight, r) ==
    [called |-> Called("update_backend_weight", <<app_id, backend_id, ToString(weight)>>),
     response |-> IF r.kind = "returned"
                  THEN APIResponse_success(None, "Backend weight updated to "
                                                 \o ToString(weight))
                  ELSE APIResponse_error(r.error)]

\* list_policies: no try around the call
api_list_policies(r) ==
    [called |-> Called("get_all_policies", <<>>),
     response |-> IF r.kind = "returned"
                  THEN APIResponse_success(Some(r.value), "success")
                  ELSE Unhandled(r.error)]

\* get_policy
api_get_policy(app_id, r) ==
    [called |-> Called("get_policy", <<app_id>>),
     response |-> IF r.kind = "returned"
                  THEN APIResponse_success(Some(r.value), "success")
                  ELSE APIResponse_error(r.error)]

\* update_policy: the value the call returns is dropped
api_update_policy(app_id, policy, r) ==
    [called |-> Called("update_policy", <<app_id, policy.policy_type,
                                          ToString(policy.limit)>>),
     response |-> IF r.kind = "returned"
                  THEN APIResponse_success(None,
                           app_id \o "'s policy now is " \o policy.policy_type
                           \o ", limit: " \o ToString(policy.limit))
                  ELSE APIResponse_error(r.error)]

\* the handler of route i is called with the parameters taken from the path,
\* the query and the body
Handle(i, path, query, body, r) ==
    LET route == Routes[i]
        h == route.handler
        p(name) == PathParam(route, path, name)
    IN CASE h = "add_backend" -> api_add_backend(body, r)
         [] h = "list_all_backends" -> api_list_all_backends(r)
         [] h = "list_app_backends" -> api_list_app_backends(p("app_id"), r)
         [] h = "get_backends" -> api_get_backends(p("app_id"), r)
         [] h = "remove_backend" -> api_remove_backend(p("app_id"), p("backend_id"), r)
         [] h = "update_backend_state" ->
                api_update_backend_state(p("app_id"), p("backend_id"), query, r)
         [] h = "update_backend_app" ->
                api_update_backend_app(p("app_id"), p("backend_id"), p("new_app_id"), r)
         [] h = "update_backend_weight" ->
                IF IsIntText(p("weight"))
                THEN api_update_backend_weight(p("app_id"), p("backend_id"),
                                               ParseInt(p("weight")), r)
                ELSE [called |-> None, response |-> Unprocessable]
         [] h = "list_policies" -> api_list_policies(r)
         [] h = "get_policy" -> api_get_policy(p("app_id"), r)
         [] h = "update_policy" -> api_update_policy(p("app_id"), body, r)

\* the exceptions a call on the scheduler can raise: an error of the store, a
\* failure of the database, a method the scheduler object does not have
CallErrors ==
    {NotFound, "sqlalchemy.exc.OperationalError", "AttributeError"}

\* the lists a listing or a selection returns
BackendLists ==
    {[type |-> "list", items |-> xs] :
        xs \in {<<>>} \cup {<<h>> : h \in Hosts}
               \cup {xs \in Hosts \X Hosts : xs[1] # xs[2]}}

\* what the call made by a handler can come to
Outcomes(handler, body) ==
    {Raised(e) : e \in CallErrors} \cup
    CASE handler = "add_backend" ->
            {Returned([type |-> "pair", first |-> body.instance_id,
                       second |-> "round_robin"])}
      [] handler \in {"list_all_backends", "list_app_backends", "get_backends"} ->
            {Returned(v) : v \in BackendLists}
      [] handler = "list_policies" ->
            {Returned([type |-> "list", items |-> <<"round_robin", "weighted",
                                                    "all_active", "random">>])}
      [] handler = "get_policy" ->
            {Returned([type |-> "Policy", policy_type |-> t, limit |-> l]) :
                t \in PolicyType, l \in 1..MaxLimit}
      [] handler = "update_policy" ->
            {Returned([type |-> "Policy", policy_type |-> body.policy_type,
                       limit |-> body.limit])}
      [] OTHER -> {Returned([type |-> "None"])}

\* one request served: the route found, the call made and the response sent,
\* for each thing the call can come to
Serve(method, path, query, body) ==
    LET i == Dispatch(method, path) IN
    IF i = 0 THEN {}
    ELSE {[name |-> "request", method |-> method, path |-> path,
           handler |-> Routes[i].handler, body |-> body, outcome |-> r,
           called |-> Handle(i, path, query, body, r).called,
           response |-> Handle(i, path, query, body, r).response]
            : r \in Outcomes(Routes[i].handler, body)}

\* POST /v1/backends
POST_backends ==
    \E backend \in BackendInputs :
        /\ op' \in Serve("POST", <<"v1", "backends">>, None, backend)
        /\ UNCHANGED <<objectVars, threadVars, table, schedVars, policies>>

\* GET /v1/backends/all
GET_backends_all ==
    /\ op' \in Serve("GET", <<"v1", "backends", "all">>, None, None)
    /\ UNCHANGED <<objectVars, threadVars, table, schedVars, policies>>

\* GET /v1/{app_id}/backends/all
GET_app_backends_all ==
    \E app_id \in Apps :
        /\ op' \in Serve("GET", <<"v1", app_id, "backends", "all">>, None, None)
        /\ UNCHANGED <<objectVars, threadVars, table, schedVars, policies>>

\* GET /v1/{app_id}/backends
GET_app_backends ==
    \E app_id \in Apps :
        /\ op' \in Serve("GET", <<"v1", app_id, "backends">>, None, None)
        /\ UNCHANGED <<objectVars, threadVars, table, schedVars, policies>>

\* DELETE /v1/{app_id}/backends/{backend_id}
DELETE_backend ==
    \E app_id \in Apps, backend_id \in Hosts :
        /\ op' \in Serve("DELETE", <<"v1", app_id, "backends", backend_id>>,
                         None, None)
        /\ UNCHANGED <<objectVars, threadVars, table, schedVars, policies>>

\* PATCH /v1/{app_id}/backends/{backend_id}?state=...
PATCH_backend ==
    \E app_id \in Apps, backend_id \in Hosts, state \in States \cup {"invalid"} :
        /\ op' \in Serve("PATCH", <<"v1", app_id, "backends", backend_id>>,
                         state, None)
        /\ UNCHANGED <<objectVars, threadVars, table, schedVars, policies>>

\* PATCH /v1/{app_id}/backends/{backend_id}/{new_app_id}
PATCH_backend_app ==
    \E app_id \in Apps, backend_id \in Hosts, new_app_id \in Apps :
        /\ op' \in Serve("PATCH", <<"v1", app_id, "backends", backend_id,
                                    new_app_id>>, None, None)
        /\ UNCHANGED <<objectVars, threadVars, table, schedVars, policies>>

\* PATCH /v1/{app_id}/backends/{backend_id}/{weight}
PATCH_backend_weight ==
    \E app_id \in Apps, backend_id \in Hosts, weight \in 0..MaxWeight :
        /\ op' \in Serve("PATCH", <<"v1", app_id, "backends", backend_id,
                                    ToString(weight)>>, None, None)
        /\ UNCHANGED <<objectVars, threadVars, table, schedVars, policies>>

\* GET /v1/policies
GET_policies ==
    /\ op' \in Serve("GET", <<"v1", "policies">>, None, None)
    /\ UNCHANGED <<objectVars, threadVars, table, schedVars, policies>>

\* GET /v1/{app_id}/policy
GET_policy ==
    \E app_id \in Apps :
        /\ op' \in Serve("GET", <<"v1", app_id, "policy">>, None, None)
        /\ UNCHANGED <<objectVars, threadVars, table, schedVars, policies>>

\* PATCH /v1/{app_id}/policy
PATCH_policy ==
    \E app_id \in Apps, policy \in PolicyInputs :
        /\ op' \in Serve("PATCH", <<"v1", app_id, "policy">>, None, policy)
        /\ UNCHANGED <<objectVars, threadVars, table, schedVars, policies>>

ApiNext ==
    \/ POST_backends
    \/ GET_backends_all
    \/ GET_app_backends_all
    \/ GET_app_backends
    \/ DELETE_backend
    \/ PATCH_backend
    \/ PATCH_backend_app
    \/ PATCH_backend_weight
    \/ GET_policies
    \/ GET_policy
    \/ PATCH_policy

ApiSpec == Init /\ [][ApiNext]_vars

----------------------------------------------------------------------------
(* comfyone_client.py: ComfyOneClient._request_api, one call followed line by *)
(* line.  pc is the position in the method, loc its local variables and the   *)
(* record of what the call did, out what the call returned or raised.         *)

\* what one requests.request(...) and the lines that read the response come to:
\* a 2xx response with a valid envelope, status 401, another 4xx/5xx status
\* (raise_for_status raises HTTPError, a RequestException), a timeout, a
\* network error, a 2xx response whose body APIResponse(**data) rejects
HttpOutcomes ==
    {"ok", "unauthorized", "http_error", "timeout", "network_error", "bad_envelope"}

\* retry_count += 1
after_failure_Uncounted(retry_count) == retry_count

\* retry_count += 1
after_failure(retry_count) == retry_count + 1

\* while retry_count < self.max_retries
may_attempt(retry_count, max_retries) == retry_count < max_retries

\* if retry_count == self.max_retries
exhausted(retry_count, max_retries) == retry_count = max_retries

\* raise ConnectionError("..."): the class takes (code, message), so building
\* it with one argument raises TypeError instead
raise_ConnectionError == "TypeError"

\* the client as constructed, before _request_api is called
RequestInit ==
    /\ pc = "idle"
    /\ \E max_retries \in 0..MaxRetries :
         loc = [max_retries |-> max_retries, retry_count |-> 0, attempts |-> 0,
                log |-> <<>>, slept |-> <<>>, exc |-> None]
    /\ out = None
    /\ op = NoOp
    /\ table = <<>> /\ POLICY_MAP = InitialPolicyMap /\ issued = {}
    /\ policies = <<>>
    /\ cands = <<>> /\ pol = <<>> /\ ret = <<>> /\ calls = <<>>
    /\ start = <<>> /\ configured = <<>>

\* _request_api is entered: retry_count = 0
request_api ==
    /\ pc = "idle"
    /\ pc' = "while"
    /\ loc' = [loc EXCEPT !.retry_count = 0]
    /\ UNCHANGED <<out, op, objectVars, table, schedVars, policies>>

\* the loop test; when it fails the method falls off its end and returns None
while_test ==
    /\ pc = "while"
    /\ IF may_attempt(loc.retry_count, loc.max_retries)
       THEN pc' = "request" /\ out' = out
       ELSE pc' = "done" /\ out' = [kind |-> "returned", value |-> "None"]
    /\ UNCHANGED <<loc, op, objectVars, table, schedVars, policies>>

\* requests.request(...) and the handling of its response, up to the return
\* or to the except clause the exception reaches
http_request ==
    /\ pc = "request"
    /\ loc.attempts <= MaxRetries
    /\ \E outcome \in HttpOutcomes :
         /\ loc' = [loc EXCEPT !.attempts = @ + 1,
                               !.log = Append(@, outcome),
                               !.exc = CASE outcome = "unauthorized" -> Some("AuthenticationError")
                                         [] outcome = "bad_envelope" -> Some("ValidationError")
                                         [] OTHER -> @]
         /\ pc' = CASE outcome = "ok" -> "done"
                    [] outcome = "timeout" -> "except_timeout"
                    [] outcome \in {"http_error", "network_error"} -> "except_request_exception"
                    [] OTHER -> "except_exception"
         /\ out' = IF outcome = "ok"
                   THEN [kind |-> "returned", value |-> "APIResponse"]
                   ELSE out
    /\ UNCHANGED <<op, objectVars, table, schedVars, policies>>

\* except requests.exceptions.Timeout
except_timeout ==
    /\ pc = "except_timeout"
    /\ LET retry_count == after_failure(loc.retry_count) IN
       IF exhausted(retry_count, loc.max_retries)
       THEN /\ loc' = [loc EXCEPT !.retry_count = retry_count,
                                  !.exc = Some(raise_ConnectionError)]
            /\ pc' = "except_exception"
       ELSE /\ loc' = [loc EXCEPT !.retry_count = retry_count]
            /\ pc' = "sleep"
    /\ UNCHANGED <<out, op, objectVars, table, schedVars, policies>>

\* except requests.exceptions.RequestException
except_request_exception ==
    /\ pc = "except_request_exception"
    /\ LET retry_count == after_failure(loc.retry_count) IN
       IF exhausted(retry_count, loc.max_retries)
       THEN /\ loc' = [loc EXCEPT !.retry_count = retry_count,
                                  !.exc = Some(raise_ConnectionError)]
            /\ pc' = "except_exception"
       ELSE /\ loc' = [loc EXCEPT !.retry_count = retry_count]
            /\ pc' = "sleep"
    /\ UNCHANGED <<out, op, objectVars, table, schedVars, policies>>

\* time.sleep(2 ** retry_count), then back to the loop test
sleep ==
    /\ pc = "sleep"
    /\ loc' = [loc EXCEPT !.slept = Append(@, 2 ^ loc.retry_count)]
    /\ pc' = "while"
    /\ UNCHANGED <<out, op, objectVars, table, schedVars, policies>>

\* an outer except clause that wraps whatever reaches it
except_exception_WrapsAll ==
    /\ pc = "except_exception"
    /\ out' = [kind |-> "raised", value |-> "APIError"]
    /\ pc' = "done"
    /\ UNCHANGED <<loc, op, objectVars, table, schedVars, policies>>

\* except Exception: AuthenticationError and ConnectionError are raised again,
\* anything else leaves as APIError(500, str(e))
except_exception ==
    /\ pc = "except_exception"
    /\ out' = IF loc.exc[1] \in {"AuthenticationError", "ConnectionError"}
              THEN [kind |-> "raised", value |-> loc.exc[1]]
              ELSE [kind |-> "raised", value |-> "APIError"]
    /\ pc' = "done"
    /\ UNCHANGED <<loc, op, objectVars, table, schedVars, policies>>

RequestNext ==
    \/ request_api
    \/ while_test
    \/ http_request
    \/ except_timeout
    \/ except_request_exception
    \/ sleep
    \/ except_exception

RequestSpec == RequestInit /\ [][RequestNext]_vars

\* the method runs on one thread and every step it waits on is bounded (the
\* request by timeout=, the sleep by its argument): a step that can be taken
\* is taken
RequestFairSpec == RequestSpec /\ WF_vars(RequestNext)

----------------------------------------------------------------------------
(* websocket_client.py: DispatchSpec, the handler table of one                *)
(* OneThingAIWebSocket and the messages its on_message receives.  loc is the  *)
(* object, out the add and remove calls made so far.                          *)

MsgTypes == {"progress", "status"}
Handlers == {"f", "g"}

\* the texts that arrive: not JSON; a JSON object with or without a "type";
\* JSON that is no object (a list, a number, null)
Messages ==
    {[json |-> "invalid"], [json |-> "non_object"]}
    \cup {[json |-> "object", type |-> t] : t \in {None} \cup {Some(t) : t \in MsgTypes}}

\* on_message with every registered handler called
on_message_Broadcast(handlers, message) ==
    IF message.json # "object"
    THEN [invoked |-> <<>>, raised |-> None]
    ELSE [invoked |-> SelectSeq(<<[handler |-> handlers["progress"], data |-> message],
                                  [handler |-> handlers["status"], data |-> message]>>,
                                LAMBDA c : c.handler # None),
          raised |-> None]

\* on_message: json.loads raises JSONDecodeError, which is caught; data.get of
\* something that is no dict raises AttributeError, which is not; a dict's
\* type missing is None, which is no key of the table
on_message(handlers, message) ==
    CASE message.json = "invalid" -> [invoked |-> <<>>, raised |-> None]
      [] message.json = "non_object" ->
            [invoked |-> <<>>, raised |-> Some("AttributeError")]
      [] OTHER ->
            LET message_type == message.type IN
            IF message_type # None /\ handlers[message_type[1]] # None
            THEN [invoked |-> <<[handler |-> handlers[message_type[1]],
                                 data |-> message]>>,
                  raised |-> None]
            ELSE [invoked |-> <<>>, raised |-> None]

DispatchInit ==
    /\ loc = [_message_handlers |-> [t \in MsgTypes |-> None]]
    /\ out = <<>>
    /\ op = NoOp
    /\ pc = <<>>
    /\ table = <<>> /\ POLICY_MAP = <<>> /\ issued = {} /\ policies = <<>>
    /\ cands = <<>> /\ pol = <<>> /\ ret = <<>> /\ calls = <<>>
    /\ start = <<>> /\ configured = <<>>

\* add_message_handler(message_type, handler)
add_message_handler ==
    /\ Len(out) < MaxRegs
    /\ \E message_type \in MsgTypes, handler \in Handlers :
         /\ loc' = [loc EXCEPT !._message_handlers[message_type] = Some(handler)]
         /\ out' = Append(out, [call |-> "add", message_type |-> message_type,
                                handler |-> Some(handler)])
         /\ op' = [name |-> "add_message_handler", message_type |-> message_type]
    /\ UNCHANGED <<pc, objectVars, table, schedVars, policies>>

\* remove_message_handler(message_type): pop(message_type, None)
remove_message_handler ==
    /\ Len(out) < MaxRegs
    /\ \E message_type \in MsgTypes :
         /\ loc' = [loc EXCEPT !._message_handlers[message_type] = None]
         /\ out' = Append(out, [call |-> "remove", message_type |-> message_type,
                                handler |-> None])
         /\ op' = [name |-> "remove_message_handler", message_type |-> message_type]
    /\ UNCHANGED <<pc, objectVars, table, schedVars, policies>>

\* a message arrives and the library calls on_message
message_received ==
    /\ \E message \in Messages :
         LET r == on_message(loc._message_handlers, message) IN
         op' = [name |-> "on_message", message |-> message,
                invoked |-> r.invoked, raised |-> r.raised,
                before |-> loc._message_handlers]
    /\ UNCHANGED <<loc, out, pc, objectVars, table, schedVars, policies>>

DispatchNext ==
    \/ add_message_handler
    \/ remove_message_handler
    \/ message_received

DispatchSpec == DispatchInit /\ [][DispatchNext]_vars

----------------------------------------------------------------------------
(* websocket_client.py: WsSpec, the life of one OneThingAIWebSocket.  The     *)
(* caller's thread calls start, close and set_connection_handler; the thread  *)
(* start creates executes run, and the library calls on_open and on_close     *)
(* from inside run_forever on that thread.  loc holds the object's fields     *)
(* (ws is the number of the WebSocketApp connect() made last, 0 for None),    *)
(* the app the thread runs, whether close() asked that app to stop, and the   *)
(* number of run_forever calls; pc is the position of the thread; out is the  *)
(* record of what happened on each connection.                                *)

\* on_open with the connection handler called before the auth message is sent
on_open_HandlerFirst(conn, connection_handler) ==
    (IF connection_handler THEN <<[ev |-> "connection_handler", conn |-> conn]>>
     ELSE <<>>)
    \o <<[ev |-> "send_auth", conn |-> conn]>>

\* on_open: ws.send of the auth message, then the connection handler if set
on_open(conn, connection_handler) ==
    <<[ev |-> "send_auth", conn |-> conn]>>
    \o (IF connection_handler THEN <<[ev |-> "connection_handler", conn |-> conn]>>
        ELSE <<>>)

WsInit ==
    /\ loc = [running |-> FALSE, ws |-> 0, _connection_handler |-> FALSE,
              app |-> 0, keep_running |-> FALSE, attempts |-> 0,
              started |-> FALSE, closed |-> FALSE]
    /\ pc = "unstarted"
    /\ out = <<>>
    /\ op = NoOp
    /\ table = <<>> /\ POLICY_MAP = <<>> /\ issued = {} /\ policies = <<>>
    /\ cands = <<>> /\ pol = <<>> /\ ret = <<>> /\ calls = <<>>
    /\ start = <<>> /\ configured = <<>>

WsStep(name) ==
    /\ op' = [name |-> name]
    /\ UNCHANGED <<objectVars, table, schedVars, policies>>

\* start(): connect() makes the WebSocketApp, then the thread is created
ws_start ==
    /\ ~loc.started
    /\ loc' = [loc EXCEPT !.started = TRUE, !.ws = loc.ws + 1]
    /\ pc' = "created"
    /\ out' = out
    /\ WsStep("start")

\* close(): running = False, then self.ws.close() when there is an app, which
\* stops the run_forever in progress on that app
ws_close ==
    /\ ~loc.closed
    /\ loc' = [loc EXCEPT !.running = FALSE, !.closed = TRUE,
                          !.keep_running =
                              IF loc.ws # 0 /\ loc.ws = loc.app THEN FALSE ELSE @]
    /\ UNCHANGED <<pc, out>>
    /\ WsStep("close")

set_connection_handler ==
    /\ ~loc._connection_handler
    /\ loc' = [loc EXCEPT !._connection_handler = TRUE]
    /\ UNCHANGED <<pc, out>>
    /\ WsStep("set_connection_handler")

\* run(), first statement: self.running = True
run_begin ==
    /\ pc = "created"
    /\ loc' = [loc EXCEPT !.running = TRUE]
    /\ pc' = "while"
    /\ out' = out
    /\ WsStep("run")

\* while self.running:
while_running ==
    /\ pc = "while"
    /\ pc' = IF loc.running THEN "run_forever" ELSE "ended"
    /\ UNCHANGED <<loc, out>>
    /\ WsStep("while")

\* self.ws.run_forever(): a connection attempt on the app self.ws names now;
\* run_forever sets the app's keep_running
run_forever ==
    /\ pc = "run_forever"
    /\ loc.attempts < MaxConnects
    /\ loc' = [loc EXCEPT !.attempts = @ + 1, !.app = loc.ws, !.keep_running = TRUE]
    /\ pc' = "connecting"
    /\ out' = Append(out, [ev |-> "attempt", conn |-> loc.attempts + 1,
                           after_close |-> loc.closed])
    /\ WsStep("run_forever")

\* the connection opens and the library calls on_open
connection_opened ==
    /\ pc = "connecting"
    /\ pc' = "open"
    /\ out' = Append(out, [ev |-> "open", conn |-> loc.attempts])
               \o on_open(loc.attempts, loc._connection_handler)
    /\ loc' = loc
    /\ WsStep("on_open")

\* the attempt fails or the connection drops: the library calls on_close and
\* run_forever returns, or returns without the callback, or raises
connection_lost ==
    /\ pc \in {"connecting", "open"}
    /\ pc' \in {"on_close", "returned", "except"}
    /\ UNCHANGED <<loc, out>>
    /\ WsStep("connection_lost")

\* close() stopped the app: the library closes the connection, calls on_close
teardown ==
    /\ pc \in {"connecting", "open"}
    /\ ~loc.keep_running
    /\ pc' = "on_close"
    /\ UNCHANGED <<loc, out>>
    /\ WsStep("teardown")

\* on_close: if self.running: time.sleep(self.reconnect_delay)
on_close ==
    /\ pc = "on_close"
    /\ pc' = IF loc.running THEN "on_close_sleep" ELSE "returned"
    /\ UNCHANGED <<loc, out>>
    /\ WsStep("on_close")

\* on_close after the delay: self.connect() makes a new WebSocketApp
on_close_connect ==
    /\ pc = "on_close_sleep"
    /\ loc' = [loc EXCEPT !.ws = @ + 1]
    /\ pc' = "returned"
    /\ out' = out
    /\ WsStep("connect")

\* after_run_forever with the loop left whenever run_forever has returned
after_run_forever_Breaks ==
    /\ pc = "returned"
    /\ pc' = "ended"
    /\ UNCHANGED <<loc, out>>
    /\ WsStep("after_run_forever")

\* run(), after run_forever returned: if not self.running: break
after_run_forever ==
    /\ pc = "returned"
    /\ pc' = IF loc.running THEN "sleep" ELSE "ended"
    /\ UNCHANGED <<loc, out>>
    /\ WsStep("after_run_forever")

\* run(), except Exception: the delay only if self.running, then the loop test
except_clause ==
    /\ pc = "except"
    /\ pc' = IF loc.running THEN "sleep" ELSE "while"
    /\ UNCHANGED <<loc, out>>
    /\ WsStep("except")

\* time.sleep(self.reconnect_delay) in run, then the loop test
reconnect_sleep ==
    /\ pc = "sleep"
    /\ pc' = "while"
    /\ UNCHANGED <<loc, out>>
    /\ WsStep("sleep")

\* the steps the thread takes by itself; a connection that is open stays open
\* until the network or close() ends it
WsThread ==
    \/ run_begin
    \/ while_running
    \/ run_forever
    \/ connection_opened
    \/ teardown
    \/ on_close
    \/ on_close_connect
    \/ after_run_forever
    \/ except_clause
    \/ reconnect_sleep

WsNext ==
    \/ ws_start
    \/ ws_close
    \/ set_connection_handler
    \/ connection_lost
    \/ WsThread

WsSpec == WsInit /\ [][WsNext]_vars

WsFairSpec == WsSpec /\ WF_vars(WsThread)

----------------------------------------------------------------------------
(* Properties of the policy engine, checked under PolicySpec *)

\* the active candidates in list order, and their number
ActiveOf(cs) == SelectSeq(cs, LAMBDA b : b.state = "active")
NumActive(cs) == Cardinality({i \in 1..Len(cs) : cs[i].state = "active"})
IsSelect == op.name = "select"

\* C1: from a fresh round-robin policy (cursor 0, limit 1) over N >= 1 unchanged
\* active backends, the i-th consecutive call returns exactly the i-th active
\* backend in list order, wrapping to the first one at call N+1.
C1_RoundRobinRotation ==
    (start = NewPolicy("round_robin", Some(1)) /\ NumActive(cands) >= 1)
    => \A i \in 1..Len(calls) :
         calls[i] = <<ActiveOf(cands)[((i - 1) % NumActive(cands)) + 1]>>

C1_Witness ==
    /\ start = NewPolicy("round_robin", Some(1))
    /\ NumActive(cands) >= 2
    /\ Len(calls) = NumActive(cands) + 1
    /\ calls[Len(calls)] = calls[1]
    /\ \A i, j \in 1..NumActive(cands) : i # j => calls[i] # calls[j]

\* C4: under every policy type and every limit L >= 1 the list returned has no
\* duplicates, holds only active candidates, and has exactly
\* min(L, number of active candidates) elements.
C4_SelectionContract ==
    (IsSelect /\ op.limit # None /\ op.limit[1] >= 1)
    => /\ \A i, j \in 1..Len(ret) : i # j => ret[i] # ret[j]
       /\ \A i \in 1..Len(ret) :
            \E k \in 1..Len(cands) : cands[k] = ret[i] /\ cands[k].state = "active"
       /\ Len(ret) = Min(op.limit[1], NumActive(cands))

C4_Witness ==
    /\ IsSelect
    /\ pol.type = "random"
    /\ op.limit = Some(3)
    /\ Len(cands) = 3
    /\ NumActive(cands) = 2
    /\ Len(ret) = 2

\* C5: a round-robin call leaves the configured limit L alone, so each call
\* returns min(L, number of active candidates) backends, also after an earlier
\* call saw fewer than L active candidates.
C5_ConfiguredLimitKept ==
    (IsSelect /\ pol.type = "round_robin" /\ configured # None /\ configured[1] >= 1)
    => Len(ret) = Min(configured[1], NumActive(cands))

\* C6: with no active candidate (the list empty or all down) every policy
\* returns the empty list, and the round-robin cursor is left unchanged.
C6_NoActiveGivesEmpty ==
    (IsSelect /\ NumActive(cands) = 0)
    => /\ ret = <<>>
       /\ pol.current_index = op.current_index

C6_Witness ==
    /\ IsSelect
    /\ pol.type = "round_robin"
    /\ Len(cands) >= 2
    /\ NumActive(cands) = 0
    /\ pol.current_index = 1
    /\ ret = <<>>

\* C18: the policy used when none is requested or configured rotates like
\* round-robin with limit 1: over N unchanged active backends the i-th
\* consecutive selection returns the i-th active backend alone, wrapping
\* after the N-th.
C18_DefaultPolicyRotates ==
    (start = default_policy /\ NumActive(cands) >= 1)
    => \A i \in 1..Len(calls) :
         calls[i] = <<ActiveOf(cands)[((i - 1) % NumActive(cands)) + 1]>>

\* C20: update_limit on a round-robin policy leaves the cursor as it was, and
\* the selection that follows returns first the backend it would have
\* returned first with the limit unchanged.
C20_LimitChangeKeepsCursor ==
    [][/\ (op'.name = "update_limit" /\ pol.type = "round_robin")
          => pol'.current_index = pol.current_index
       /\ (op.name = "update_limit" /\ op'.name = "select"
           /\ pol.type = "round_robin" /\ NumActive(cands) >= 1)
          => /\ ret' # <<>>
             /\ ret'[1] = RoundRobin_select_backends(op.before, cands).ret[1]]_vars

C20_Witness ==
    /\ op.name = "update_limit"
    /\ pol.type = "round_robin"
    /\ pol.current_index = 1
    /\ op.before.limit = Some(1)
    /\ pol.limit = Some(2)
    /\ NumActive(cands) >= 2

\* the position of backend b in the candidate list
PosIn(cs, b) == CHOOSE k \in 1..Len(cs) : cs[k] = b

\* the number of backends a policy with this limit returns of n active ones
Capped(limit, n) == IF limit = None THEN n ELSE Min(limit[1], n)

\* C22: a weighted selection returns the first `limit` active candidates in
\* order of descending weight, ties in input order: the list returned holds
\* distinct active candidates, min(limit, active count) of them; no returned
\* backend stands before a heavier returned one; returned backends of equal
\* weight stand in input order; and no omitted active backend is heavier than
\* a returned one, or as heavy and earlier in the input.
C22_WeightedSelection ==
    (IsSelect /\ pol.type = "weighted")
    => /\ Len(ret) = Capped(op.limit, NumActive(cands))
       /\ \A i \in 1..Len(ret) :
            \E k \in 1..Len(cands) : cands[k] = ret[i] /\ cands[k].state = "active"
       /\ \A i, j \in 1..Len(ret) :
            i < j => /\ ret[i] # ret[j]
                     /\ ret[i].weight >= ret[j].weight
                     /\ ret[i].weight = ret[j].weight
                        => PosIn(cands, ret[i]) < PosIn(cands, ret[j])
       /\ \A k \in 1..Len(cands), i \in 1..Len(ret) :
            (cands[k].state = "active" /\ \A j \in 1..Len(ret) : ret[j] # cands[k])
            => /\ cands[k].weight <= ret[i].weight
               /\ cands[k].weight = ret[i].weight => PosIn(cands, ret[i]) < k

C22_Witness ==
    /\ IsSelect
    /\ pol.type = "weighted"
    /\ op.limit = Some(2)
    /\ Len(cands) = 3
    /\ NumActive(cands) = 3
    /\ cands[1].weight = 1 /\ cands[2].weight = 2 /\ cands[3].weight = 1
    /\ ret = <<cands[2], cands[1]>>

\* C23: an all-active policy is stateless: every call made with the same
\* candidate list and limit returns the same list, the first `limit` active
\* candidates in stored order, and the policy object stays as it was.
C23_AllActiveStateless ==
    pol.type = "all_active"
    => /\ pol = start
       /\ \A i \in 1..Len(calls) :
            calls[i] = SubSeq(ActiveOf(cands), 1,
                              Capped(start.limit, NumActive(cands)))

C23_Witness ==
    /\ IsSelect
    /\ pol.type = "all_active"
    /\ pol.limit = Some(2)
    /\ Len(cands) = 3
    /\ NumActive(cands) = 3
    /\ Len(calls) = 3
    /\ calls[3] = <<cands[1], cands[2]>>

----------------------------------------------------------------------------
(* Properties of concurrent selection, checked under RaceSpec *)

\* C2: whatever the interleaving, the calls return what some sequential order
\* of the same calls returns: the k-th call of that order gets the k-th active
\* backend (modulo N), so each backend is returned as often as in a rotation.
C2_SelectionsLinearizable ==
    ((\A t \in Threads : pc[t] = "done") /\ NumActive(cands) >= 1)
    => \A i \in 1..NumActive(cands) :
         Cardinality({t \in Threads : out[t] = <<ActiveOf(cands)[i]>>})
         = Cardinality({k \in 1..NumThreads : ((k - 1) % NumActive(cands)) + 1 = i})

----------------------------------------------------------------------------
(* Properties of the store, checked under RegistrySpec and AddRaceSpec *)

InstanceIdsUnique ==
    \A i, j \in 1..Len(table) :
        table[i].instance_id = table[j].instance_id => i = j

AddOfPresentInstanceFails ==
    (op'.name = "add_backend"
     /\ \E i \in 1..Len(table) : table[i].instance_id = op'.backend_id)
    => (table' = table /\ op'.error = AlreadyExists)

\* C8: no two stored backends ever share an instance_id, whatever their
\* app_id, and an add_backend whose instance_id is already stored under any
\* app_id fails with the "already exists" error and leaves the table unchanged.
C8_InstanceIdUnique == []InstanceIdsUnique /\ [][AddOfPresentInstanceFails]_vars

C8_Witness ==
    /\ op.name = "add_backend"
    /\ op.error = AlreadyExists
    /\ Len(table) = 2
    /\ \E i \in 1..Len(table) :
         table[i].instance_id = op.backend_id /\ table[i].app_id # op.app_id

\* C9: when two add_backend calls with the same instance_id overlap, exactly
\* one stores a record and the other fails with the error a sequential
\* duplicate registration gets, the "already exists" error.
C9_ConcurrentAddConflict ==
    \A t, u \in Threads :
        (t # u /\ pc[t] = "done" /\ pc[u] = "done"
         /\ loc[t].instance_id = loc[u].instance_id)
        => /\ Cardinality({v \in {t, u} : out[v] = NoError}) = 1
           /\ \A v \in {t, u} : out[v] \in {NoError, AlreadyExists}

\* the indices of the rows stored under app_id with instance_id backend_id
Matching(rows, app_id, backend_id) ==
    {i \in 1..Len(rows) : rows[i].app_id = app_id /\ rows[i].instance_id = backend_id}

C12_WeightBelowOneRejected ==
    (op.name = "update_backend_weight" /\ op.weight < 1)
    => /\ op.error = BadWeight
       /\ Len(table) = Len(op.before)
       /\ \A i \in 1..Len(table) :
            /\ table[i].instance_id = op.before[i].instance_id
            /\ table[i].weight = op.before[i].weight

C12_Witness ==
    /\ op.name = "update_backend_weight"
    /\ op.weight = 0
    /\ op.error = BadWeight
    /\ \E i \in Matching(table, op.app_id, op.backend_id) : table[i].weight = MaxWeight

\* C14: every stored backend has a weight of at least 1, whatever weight its
\* registration carried.
C14_StoredWeightAtLeastOne ==
    \A i \in 1..Len(table) : table[i].weight >= 1

StateIsActiveOrDown ==
    \A i \in 1..Len(table) : table[i].state \in {"active", "down"}

StateChangesOnlyByUpdate ==
    /\ (op.name = "update_backend_state" /\ op.state \notin {"active", "down"})
       => (op.error = BadState /\ table = op.before)
    /\ \A i \in 1..Len(op.before), j \in 1..Len(table) :
         (op.before[i].instance_id = table[j].instance_id
          /\ op.before[i].state # table[j].state)
         => /\ op.name = "update_backend_state"
            /\ op.error = NoError
            /\ op.app_id = op.before[i].app_id
            /\ op.backend_id = op.before[i].instance_id
            /\ op.state = table[j].state

\* C15: a stored backend is always active or down; update_backend_state with
\* another value fails and changes nothing; and the state of a stored backend
\* changes only in a successful update_backend_state of that backend, to the
\* state asked for (listing for selection, weight update and app reassignment
\* leave it alone).
C15_BackendStateMachine ==
    /\ StateIsActiveOrDown
    /\ op.name # "init" => StateChangesOnlyByUpdate

C15_Witness ==
    /\ op.name = "update_backend_state"
    /\ op.error = NoError
    /\ op.state = "down"
    /\ Len(table) = 2
    /\ \E i \in Matching(op.before, op.app_id, op.backend_id) :
         op.before[i].state = "active" /\ table[i].state = "down"
    /\ \E i \in 1..Len(table) : table[i].state = "active"

\* C16: update_backend_app_id with an empty new_app_id fails and changes
\* nothing; with a non-empty one and a row stored under (current_app_id,
\* backend_id) it rewrites the app_id of that row alone: the backend is then
\* listed under new_app_id and under no other app, its instance_id, weight and
\* state are the same, and every other row is unchanged.
C16_ReassignMovesOneBackend ==
    op.name = "update_backend_app_id"
    => IF op.new_app_id = ""
       THEN op.error = EmptyAppId /\ table = op.before
       ELSE \A i \in Matching(op.before, op.app_id, op.backend_id) :
              /\ op.error = NoError
              /\ Len(table) = Len(op.before)
              /\ \A j \in 1..Len(table) : j # i => table[j] = op.before[j]
              /\ table[i].instance_id = op.before[i].instance_id
              /\ table[i].weight = op.before[i].weight
              /\ table[i].state = op.before[i].state
              /\ \A a \in Apps :
                   (\E k \in 1..Len(DB_get_app_backends(table, a)) :
                      DB_get_app_backends(table, a)[k].instance_id = op.backend_id)
                   <=> a = op.new_app_id

C16_Witness ==
    /\ op.name = "update_backend_app_id"
    /\ op.error = NoError
    /\ op.new_app_id # op.app_id
    /\ Len(table) = 2
    /\ Matching(table, op.new_app_id, op.backend_id) # {}
    /\ \E i \in 1..Len(table) : table[i].app_id = op.app_id

\* the errors DBOperations raises for a backend operation, and the kind of
\* failure each one reports
StoreErrors == {AlreadyExists, NotFound, BadState, EmptyAppId, BadWeight}

FailureKind(error) ==
    CASE error = AlreadyExists -> "conflict"
      [] error = NotFound -> "not_found"
      [] OTHER -> "validation"

\* C24: the type of the error an operation fails with tells the kind of
\* failure: a failure of another kind (duplicate identity, missing backend,
\* malformed input) has an error of another type.
C24_FailureKindsTyped ==
    (op.name # "init" /\ "error" \in DOMAIN op /\ op.error \in StoreErrors)
    => \A e \in StoreErrors :
         FailureKind(e) # FailureKind(op.error)
         => ExceptionClass(e) # ExceptionClass(op.error)

\* C17: every app_id with a backend stored under it, so every app_id a
\* registration succeeded for, has exactly one row in the policies table.
C17_OnePolicyRowPerApp ==
    \A a \in Apps :
        (\E i \in 1..Len(table) : table[i].app_id = a)
        => Cardinality({k \in 1..Len(policies) : policies[k].app_id = a}) = 1

----------------------------------------------------------------------------
(* Properties of the request handlers, checked under Spec *)

\* C13: the limit of every policy is at least 1 in every reachable state: a
\* limit update with a new limit below 1 is refused and changes no limit.
C13_PolicyLimitAtLeastOne ==
    \A t \in PolicyType : POLICY_MAP[t].limit # None /\ POLICY_MAP[t].limit[1] >= 1

\* C19: when a selection for an app with another policy type is followed by a
\* round-robin selection for the same app, the rotation starts over: the
\* round-robin selection returns the first active backend of the app.
C19_TypeSwitchResetsRotation ==
    [][(/\ op.name = "get_backends" /\ op.error = NoError
        /\ op.policy # None /\ op.policy # Some("round_robin")
        /\ op'.name = "get_backends" /\ op'.error = NoError
        /\ op'.policy = Some("round_robin")
        /\ op'.app_id = op.app_id
        /\ NumActive(DB_get_app_backends(table, op.app_id)) >= 1)
       => /\ op'.data # <<>>
          /\ op'.data[1].host
             = ActiveOf(DB_get_app_backends(table, op.app_id))[1].instance_id]_vars

\* C3: round-robin rotation state is kept per app_id: a selection for one app
\* changes neither the cursor nor the limit that a round-robin selection for
\* any other app uses.
C3_RotationStatePerApp ==
    [][(op'.name = "get_backends" /\ op'.error = NoError)
       => \A other \in Apps \ {op'.app_id} :
            PolicyFor(other, Some("round_robin"))' = PolicyFor(other, Some("round_robin"))]_vars

\* C7: selecting for an app id that has no stored backend succeeds with an
\* empty list: no error is raised or reported.
C7_EmptyAppSelectsEmpty ==
    (op.name = "get_backends" /\ \A i \in 1..Len(table) : table[i].app_id # op.app_id)
    => (op.error = NoError /\ op.data = <<>>)

\* C10: a backend registered without an explicit id gets an id generated for
\* it alone: never one that an earlier registration was stored with, also after
\* that earlier backend was removed.
C10_FreshIdPerRegistration ==
    [][(op'.name = "post_backend" /\ op'.error = NoError /\ ~op'.explicit)
       => op'.id \notin issued]_vars

----------------------------------------------------------------------------
(* Properties of POLICY_MAP, checked under PolicyMapSpec and Spec *)

\* C28: update_policy_limit for one of the four policy types answers code 0,
\* that policy's limit is new_limit afterwards and the other three limits are
\* as before; for an unknown type it answers code 1, "Policy not found", and
\* every limit is as before.
C28_UpdatePolicyLimit ==
    op.name = "scheduler.update_policy_limit"
    => IF op.policy_type \in PolicyType
       THEN /\ op.code = 0
            /\ POLICY_MAP[op.policy_type].limit = Some(op.new_limit)
            /\ \A t \in PolicyType \ {op.policy_type} :
                 POLICY_MAP[t].limit = op.before[t].limit
       ELSE /\ op.code = 1
            /\ op.msg = "Policy not found"
            /\ \A t \in PolicyType : POLICY_MAP[t].limit = op.before[t].limit

C28_Witness ==
    /\ op.name = "scheduler.update_policy_limit"
    /\ op.policy_type = "round_robin"
    /\ op.new_limit = 2
    /\ op.code = 0
    /\ POLICY_MAP["round_robin"].limit = Some(2)
    /\ POLICY_MAP["weighted"].limit = Some(1)
    /\ POLICY_MAP["all_active"].limit = Some(5)

\* C29: a selection leaves the limits get_supported_policies reports as they
\* were (stated for limits of at least 1).
C29_SelectionKeepsReportedLimits ==
    [][(/\ op'.name = "get_backends"
        /\ \A t \in PolicyType : POLICY_MAP[t].limit[1] >= 1)
       => Sched_get_supported_policies(POLICY_MAP').data
          = Sched_get_supported_policies(POLICY_MAP).data]_vars

----------------------------------------------------------------------------
(* Property of the stored policy of an app, checked under ConfiguredSpec *)

\* C21: the selection that follows a successful policy update of an app uses
\* the configuration just stored: it returns at most the new limit, and when
\* the new type is weighted it returns what a weighted policy of the new limit
\* selects, the heaviest active backends first.
C21_UpdatedPolicyUsedNext ==
    [][(/\ op.name = "add_or_update_policy"
        /\ op.error = NoError
        /\ op.policy.limit >= 1
        /\ op'.name = "get_backends"
        /\ op'.app_id = op.app_id
        /\ op'.policy = None
        /\ op'.error = NoError)
       => LET backends == DB_get_app_backends(table, op.app_id)
              expected == Weighted_select_backends(
                              NewPolicy("weighted", Some(op.policy.limit)),
                              backends).ret
          IN /\ Len(op'.data) <= op.policy.limit
             /\ op.policy.policy_type = "weighted"
                => op'.data = [i \in 1..Len(expected) |-> from_orm(expected[i])]]_vars

----------------------------------------------------------------------------
(* Properties of the routes of api.py, checked under ApiSpec *)

\* C25: every endpoint answers with the envelope whatever the call on the
\* scheduler came to: code 0 exactly when the call returned, and code 1 with
\* no data when it raised; no exception leaves the handler.
C25_EnvelopeForEveryOutcome ==
    op.name = "request"
    => /\ op.response.kind = "envelope"
       /\ op.response.code = 0 <=> op.outcome.kind = "returned"
       /\ op.response.code = 1 => op.response.data = None

\* C26: PATCH /v1/{app_id}/backends/{backend_id}/{weight} with a weight of at
\* least 1, the call on the scheduler succeeding, is served by the weight
\* update: update_backend_weight is what is called, and the answer is code 0,
\* "Backend weight updated to <weight>".
C26_WeightRouteUpdatesWeight ==
    (/\ op.name = "request"
     /\ op.method = "PATCH"
     /\ Len(op.path) = 5
     /\ IsIntText(op.path[5])
     /\ ParseInt(op.path[5]) >= 1
     /\ op.outcome.kind = "returned")
    => /\ op.called = Called("update_backend_weight",
                             <<op.path[2], op.path[4], op.path[5]>>)
       /\ op.response = APIResponse_success(None, "Backend weight updated to "
                                                  \o op.path[5])

\* C27: a PATCH /v1/{app_id}/policy for a limit of at least 1 that succeeds
\* answers code 0 with the updated policy as data, its limit the limit asked
\* for.
C27_PolicyUpdateReturnsPolicy ==
    (/\ op.name = "request"
     /\ op.method = "PATCH"
     /\ Len(op.path) = 3
     /\ op.body.limit >= 1
     /\ op.outcome.kind = "returned")
    => /\ op.response.kind = "envelope"
       /\ op.response.code = 0
       /\ op.response.data # None
       /\ op.response.data[1].limit = op.body.limit

----------------------------------------------------------------------------
(* Property of ComfyOneClient._request_api, checked under RequestFairSpec *)

\* the attempts of the log that failed by a timeout or a request exception
FailedAttempts(log) ==
    Cardinality({i \in 1..Len(log) :
                   log[i] \in {"timeout", "network_error", "http_error"}})

\* C30: _request_api terminates, and issues at most max_retries HTTP attempts:
\* every timeout or network error counts as one failed attempt, an attempt is
\* only ever made after fewer than max_retries failed ones, and nothing is
\* attempted after a success.
C30_BoundedRetries ==
    /\ [](/\ loc.attempts = Len(loc.log)
          /\ loc.attempts <= loc.max_retries
          /\ pc \in {"while", "request", "sleep", "done"}
             => loc.retry_count = FailedAttempts(loc.log)
          /\ \A i \in 1..Len(loc.log) :
               /\ FailedAttempts(SubSeq(loc.log, 1, i - 1)) < loc.max_retries
               /\ loc.log[i] = "ok" => i = Len(loc.log) /\ pc = "done")
    /\ <>[](pc = "done")

C30_Witness ==
    /\ pc = "done"
    /\ loc.max_retries = 3
    /\ loc.log = <<"timeout", "network_error", "ok">>
    /\ loc.slept = <<2, 4>>
    /\ out = [kind |-> "returned", value |-> "APIResponse"]

\* C31: a 401 response ends the call with AuthenticationError at once: the
\* attempt that got it is the last one, no wait follows it, and the call
\* raises AuthenticationError, however many attempts were left.
C31_UnauthorizedRaisesAtOnce ==
    \A i \in 1..Len(loc.log) :
        loc.log[i] = "unauthorized"
        => /\ i = Len(loc.log)
           /\ Len(loc.slept) = FailedAttempts(SubSeq(loc.log, 1, i - 1))
           /\ pc \in {"except_exception", "done"}
           /\ pc = "done" => out = [kind |-> "raised", value |-> "AuthenticationError"]

C31_Witness ==
    /\ pc = "done"
    /\ loc.max_retries = 3
    /\ loc.log = <<"timeout", "unauthorized">>
    /\ loc.slept = <<2>>
    /\ out = [kind |-> "raised", value |-> "AuthenticationError"]

\* C32: a call whose max_retries attempts all failed with a timeout or a
\* network error raises ConnectionError.
C32_ExhaustedRaisesConnectionError ==
    (/\ pc = "done"
     /\ loc.max_retries >= 1
     /\ Len(loc.log) = loc.max_retries
     /\ \A i \in 1..Len(loc.log) : loc.log[i] \in {"timeout", "network_error"})
    => out = [kind |-> "raised", value |-> "ConnectionError"]

\* C40: a call ends by returning an APIResponse or by raising
\* AuthenticationError, ConnectionError or APIError, whatever max_retries is.
C40_ReturnsResponseOrRaises ==
    pc = "done"
    => \/ out = [kind |-> "returned", value |-> "APIResponse"]
       \/ /\ out.kind = "raised"
          /\ out.value \in {"AuthenticationError", "ConnectionError", "APIError"}

----------------------------------------------------------------------------
(* Properties of create_policy, checked under CreateSpec, and of the          *)
(* round-robin rotation, checked under RotationSpec and PolicySpec            *)

\* C37: create_policy called without a limit returns a policy of the type
\* asked for whose limit is the default of that type (1, 3, 1, 1); for an
\* unknown type it raises.
C37_CreatePolicyDefaultLimit ==
    (op.name = "create_policy" /\ op.limit = None)
    => IF op.policy_type \in PolicyType
       THEN /\ op.error = NoError
            /\ pol.type = op.policy_type
            /\ pol.limit = Some(IF op.policy_type = "weighted" THEN 3 ELSE 1)
       ELSE op.error # NoError

\* C38: over N unchanged active backends a round-robin policy of limit
\* k <= N serves the list cyclically: the calls made since the list last
\* changed return, one after the other, the next k backends of the list from
\* some starting point on, wrapping around.
C38_RoundRobinCyclic ==
    LET N == NumActive(cands)
        active == ActiveOf(cands)
    IN (/\ start.type = "round_robin"
        /\ start.limit # None
        /\ start.limit[1] >= 1 /\ start.limit[1] <= N)
       => \E s \in 0..(N - 1) :
            \A i \in 1..Len(calls) :
               /\ Len(calls[i]) = start.limit[1]
               /\ \A j \in 1..start.limit[1] :
                    calls[i][j] = active[((s + (i - 1) * start.limit[1] + j - 1) % N) + 1]

\* C39: a round-robin call over a non-empty active list returns a selection,
\* whatever the cursor was before, also one past the end of the list: between
\* 1 and all of the active backends, each once; and the cursor is within the
\* active list afterwards.
C39_StaleCursorIsSafe ==
    (IsSelect /\ pol.type = "round_robin" /\ NumActive(cands) >= 1)
    => /\ pol.current_index >= 0
       /\ pol.current_index < NumActive(cands)
       /\ Len(ret) >= 1
       /\ Len(ret) <= NumActive(cands)
       /\ \A i \in 1..Len(ret) :
            \E k \in 1..Len(cands) : cands[k] = ret[i] /\ cands[k].state = "active"
       /\ \A i, j \in 1..Len(ret) : i # j => ret[i] # ret[j]

C39_Witness ==
    /\ IsSelect
    /\ pol.type = "round_robin"
    /\ op.current_index = 2
    /\ NumActive(cands) = 1
    /\ Len(cands) = 2
    /\ ret = ActiveOf(cands)
    /\ pol.current_index = 0

----------------------------------------------------------------------------
(* Properties of the WebSocket client, checked under DispatchSpec and WsSpec  *)

\* the handler the add and remove calls made so far leave registered for a
\* type: that of the last call for the type when it is an add, else none
RegisteredFor(calls_made, message_type) ==
    LET about == SelectSeq(calls_made, LAMBDA c : c.message_type = message_type)
    IN IF about = <<>> THEN None ELSE about[Len(about)].handler

\* C34: a message of type T calls the handler registered for T, once, with
\* the decoded message, and no other handler; when no handler is registered
\* for T, or the text is not JSON, no handler is called, nothing is raised
\* and the table is as it was.
C34_MessageDispatch ==
    (op.name = "on_message" /\ op.message.json # "non_object")
    => LET registered ==
              IF op.message.json = "object" /\ op.message.type # None
              THEN RegisteredFor(out, op.message.type[1])
              ELSE None
       IN /\ op.raised = None
          /\ loc._message_handlers = op.before
          /\ op.invoked = IF registered = None THEN <<>>
                          ELSE <<[handler |-> registered, data |-> op.message]>>

C34_Witness ==
    /\ op.name = "on_message"
    /\ Len(out) = 3
    /\ out[1] = [call |-> "add", message_type |-> "status", handler |-> Some("f")]
    /\ out[2] = [call |-> "add", message_type |-> "progress", handler |-> Some("f")]
    /\ out[3] = [call |-> "add", message_type |-> "status", handler |-> Some("g")]
    /\ op.message = [json |-> "object", type |-> Some("status")]
    /\ op.invoked = <<[handler |-> Some("g"), data |-> op.message]>>

\* the positions in out of the events of one kind on one connection
EventsAt(ev, conn) ==
    {i \in 1..Len(out) : out[i].ev = ev /\ out[i].conn = conn}

\* C33: on every connection that has opened, the first as well as each
\* reconnect, the auth message was sent exactly once, and the connection
\* handler was called only after it.
C33_AuthOnEveryOpen ==
    \A conn \in 1..loc.attempts :
        /\ Cardinality(EventsAt("send_auth", conn))
              = Cardinality(EventsAt("open", conn))
        /\ Cardinality(EventsAt("open", conn)) <= 1
        /\ \A h \in EventsAt("connection_handler", conn) :
              \E a \in EventsAt("send_auth", conn) : a < h

C33_Witness ==
    /\ loc.attempts = 2
    /\ pc = "open"
    /\ EventsAt("send_auth", 1) # {}
    /\ EventsAt("send_auth", 2) # {}
    /\ EventsAt("connection_handler", 2) # {}

\* C35: the run loop ends only after close(), and while close() has not been
\* called every return or exception of run_forever is followed by another
\* call of run_forever.
C35_ReconnectsUntilClosed ==
    /\ [](pc = "ended" => loc.closed)
    /\ \A n \in 1..(MaxConnects - 1) :
          (pc \in {"returned", "except"} /\ loc.attempts = n /\ ~loc.closed)
          ~> (loc.attempts > n \/ loc.closed)

C35_Witness ==
    /\ loc.attempts = 2
    /\ ~loc.closed
    /\ pc = "connecting"

\* C36: no connection attempt starts after close() has returned.
C36_CloseWins ==
    \A i \in 1..Len(out) : out[i].ev = "attempt" => ~out[i].after_close

====
